---- MODULE Spec2Model ----
(***************************************************************************)
(* A model of the CLOUDSC GT4Py engine: construction of the fused          *)
(* (Cloudsc) and split (CloudscSplit) components, the merge of the         *)
(* externals table, and array_call with its scoped temporaries and its     *)
(* stage invocations.                                                      *)
(*                                                                         *)
(* Field and argument names are sequences of their underscore-separated    *)
(* tokens ("f_tnd_tmp_a" is <<"f","tnd","tmp","a">>), so that              *)
(* name.split("_", maxsplit=1)[1] is Tail.  Buffers are numbered; mem maps *)
(* a buffer to its contents.  A column field is abstracted to one value;   *)
(* the fields array_call indexes (f_aph, klevel) are sequences over the    *)
(* interface levels.                                                       *)
(***************************************************************************)
EXTENDS Integers, Sequences, FiniteSets, Bags, TLC

\* ------------------------------------------------------------------ bounds

\* Largest number of full levels nz of a grid.
MaxNz == 2
\* Number of distinct state bundles (contents of the input file).
NumSeeds == 1
\* Largest timestep, in seconds.
MaxDt == 1
\* Number of callers (each owning its output buffers) that may be inside
\* array_call at the same time.
NumCallers == 2
\* Calls of one caller in a row that are counted (the count saturates there).
MaxRuns == 2
\* Modulus of the abstract field values.
Modulus == 101
\* Number of columns nx of the grid.
Nx == 1
\* Resolution of the numbers of the stencil library: units per 1.
Scale == 100
\* Largest number of columns and of levels of a field or buffer handed to
\* initialize_field.
MaxCols == 3
MaxLevs == 2

\* ------------------------------------------------------------------ helpers

Range(s) == {s[i] : i \in DOMAIN s}

\* Position of x in sequence s (0 when absent).
IndexOf(s, x) ==
  IF \E i \in DOMAIN s : s[i] = x THEN CHOOSE i \in DOMAIN s : s[i] = x ELSE 0

\* A function as an explicit table (a function constructor is otherwise
\* re-evaluated at every application).
Eager(f) == f @@ <<>>

\* Sum of the values (all >= 0) of a function with a finite domain.
Sum(f) == BagCardinality([x \in DOMAIN f |-> f[x] + 1]) - Cardinality(DOMAIN f)

\* dict.update: the entries of new replace those of old on a key collision.
Update(old, new) == new @@ old

EmptyDict == <<>>

Restrict(d, S) == Eager([k \in S |-> d[k]])

\* ------------------------------------------------------------------ schema

\* An input schema that also declares f_vfa, which the state provider holds.
InputNamesWithVfa ==
  << <<"b", "convection", "on">>, <<"f", "a">>, <<"f", "ap">>,
     <<"f", "aph">>, <<"f", "ccn">>, <<"f", "hrlw">>, <<"f", "hrsw">>,
     <<"f", "icrit", "aer">>, <<"f", "lcrit", "aer">>, <<"f", "lsm">>,
     <<"f", "lu">>, <<"f", "lude">>, <<"f", "mfd">>, <<"f", "mfu">>,
     <<"f", "nice">>, <<"f", "qi">>, <<"f", "ql">>, <<"f", "qr">>,
     <<"f", "qs">>, <<"f", "qv">>, <<"f", "re", "ice">>, <<"f", "snde">>,
     <<"f", "supsat">>, <<"f", "t">>, <<"f", "tnd", "tmp", "a">>,
     <<"f", "tnd", "tmp", "qi">>, <<"f", "tnd", "tmp", "ql">>,
     <<"f", "tnd", "tmp", "qr">>, <<"f", "tnd", "tmp", "qs">>,
     <<"f", "tnd", "tmp", "qv">>, <<"f", "tnd", "tmp", "t">>, <<"f", "vfa">>,
     <<"f", "vfi">>, <<"f", "vfl">>, <<"f", "w">>, <<"i", "convection", "type">> >>

\* The keys of input_grid_properties, in the order of the dict literal
\* (the same in both components).
InputNames ==
  << <<"b", "convection", "on">>, <<"f", "a">>, <<"f", "ap">>,
     <<"f", "aph">>, <<"f", "ccn">>, <<"f", "hrlw">>, <<"f", "hrsw">>,
     <<"f", "icrit", "aer">>, <<"f", "lcrit", "aer">>, <<"f", "lsm">>,
     <<"f", "lu">>, <<"f", "lude">>, <<"f", "mfd">>, <<"f", "mfu">>,
     <<"f", "nice">>, <<"f", "qi">>, <<"f", "ql">>, <<"f", "qr">>,
     <<"f", "qs">>, <<"f", "qv">>, <<"f", "re", "ice">>, <<"f", "snde">>,
     <<"f", "supsat">>, <<"f", "t">>, <<"f", "tnd", "tmp", "a">>,
     <<"f", "tnd", "tmp", "qi">>, <<"f", "tnd", "tmp", "ql">>,
     <<"f", "tnd", "tmp", "qr">>, <<"f", "tnd", "tmp", "qs">>,
     <<"f", "tnd", "tmp", "qv">>, <<"f", "tnd", "tmp", "t">>, <<"f", "vfi">>,
     <<"f", "vfl">>, <<"f", "w">>, <<"i", "convection", "type">> >>

\* The keys of tendency_grid_properties.
TendencyNames ==
  << <<"f", "a">>, <<"f", "t">>, <<"f", "qv">>, <<"f", "ql">>, <<"f", "qi">>,
     <<"f", "qr">>, <<"f", "qs">> >>

\* The keys of diagnostic_grid_properties.
DiagnosticNames ==
  << <<"f", "covptot">>, <<"f", "fcqlng">>, <<"f", "fcqnng">>,
     <<"f", "fcqrng">>, <<"f", "fcqsng">>, <<"f", "fhpsl">>,
     <<"f", "fhpsn">>, <<"f", "fplsl">>, <<"f", "fplsn">>, <<"f", "fsqif">>,
     <<"f", "fsqitur">>, <<"f", "fsqlf">>, <<"f", "fsqltur">>,
     <<"f", "fsqrf">>, <<"f", "fsqsf">>, <<"f", "rainfrac", "toprfz">> >>

\* The names bound by the "as (...)" clause of the fused component's
\* managed_temporary_storage block, in order: six (I, J) floats, one (I, J)
\* bool, one (K - 1/2,) int.
ScratchNames ==
  << <<"aph", "s">>, <<"cldtopdist">>, <<"covpmax">>, <<"covptot">>,
     <<"paphd">>, <<"trpaus">>, <<"rainliq">>, <<"klevel">> >>

\* The 18 further (I, J, K) float temporaries of the split component.
IntermediateNames ==
  << <<"foealfa">>, <<"lneg", "qi">>, <<"lneg", "ql">>, <<"lneg", "qr">>,
     <<"lneg", "qs">>, <<"lude">>, <<"pfplsi">>, <<"pfplsl">>, <<"pfplsr">>,
     <<"pfplss">>, <<"qi0">>, <<"qin">>, <<"ql0">>, <<"qln">>, <<"qr0">>,
     <<"qrn">>, <<"qs0">>, <<"qsn">> >>

Variants == {"fused", "split"}

\* ------------------------------------------------------------------ values

\* A constant's value is <<type, numerator, denominator, exponent>>: the
\* number numerator / denominator * 10^exponent of that Python type.  The type
\* "eps" counts in units of sys.float_info.epsilon.
IntVal(n) == <<"int", n, 1, 0>>
BoolVal(b) == <<"bool", IF b THEN 1 ELSE 0, 1, 0>>
FloatVal(n, e) == <<"float", n, 1, e>>
EpsVal(n) == <<"eps", n, 1, 0>>

Abs(n) == IF n < 0 THEN -n ELSE n

RECURSIVE GCD(_, _)
GCD(a, b) == IF b = 0 THEN a ELSE GCD(b, a % b)

\* The float n / d in lowest terms with a positive denominator (d # 0).
Ratio(n, d) ==
  LET g == GCD(Abs(n), Abs(d))
      sgn == IF d < 0 THEN -1 ELSE 1
  IN <<"float", sgn * (n \div g), Abs(d) \div g, 0>>

\* Python's a / b on numbers: true division, a float.
TrueDiv(a, b) == Ratio(a[2] * b[3], a[3] * b[2])

\* Python's a - b on numbers of exponent 0.
Minus(a, b) == Ratio(a[2] * b[3] - b[2] * a[3], a[3] * b[3])

IsZero(a) == a[2] = 0

\* ------------------------------------------------------------------ parameter groups

\* The contents the input file may give each parameter group (the dict()
\* of the group).  Besides the regular contents there are groups lacking a
\* field, and groups with a field named like a literal constant or like a field
\* of another group.
YoecldpChoices ==
  { [NCLDQI |-> IntVal(1), NCLDQR |-> IntVal(2), NCLDQS |-> IntVal(3)],
    [NCLDQI |-> IntVal(1), NCLDQS |-> IntVal(3)],
    [NCLDQI |-> IntVal(1), NCLDQR |-> IntVal(2), NCLDQS |-> IntVal(3),
     NLEV |-> IntVal(99), RALVDCP |-> IntVal(4)] }

YoethfChoices ==
  { [RALSDCP |-> IntVal(5), RALVDCP |-> IntVal(3), RTT |-> IntVal(7)],
    [RALSDCP |-> IntVal(5), RTT |-> IntVal(7)],
    [RALSDCP |-> IntVal(5), RALVDCP |-> IntVal(3), RTT |-> IntVal(7),
     RDCP |-> IntVal(50)] }

YomcstChoices ==
  { [RD |-> IntVal(6), RCPD |-> IntVal(3), RTT |-> IntVal(8)],
    [RD |-> IntVal(6), RTT |-> IntVal(8)],
    [RD |-> IntVal(6), RCPD |-> IntVal(4), RTT |-> IntVal(8),
     EPSEC |-> IntVal(5)] }

YrecldpChoices ==
  { [RVICE |-> IntVal(1), RVRAIN |-> IntVal(4), RVSNOW |-> IntVal(2)],
    [RVICE |-> IntVal(1), RVRAIN |-> IntVal(4)],
    [RVICE |-> IntVal(1), RVRAIN |-> IntVal(4), RVSNOW |-> IntVal(2),
     RD |-> IntVal(9), VQI |-> IntVal(8)] }

\* Every combination the input file may hold.
ParamChoices ==
  [yoecldp : YoecldpChoices, yoethf : YoethfChoices,
   yomcst : YomcstChoices, yrecldp : YrecldpChoices]

GroupOrder == <<"yoecldp", "yoethf", "yomcst", "yrecldp">>

\* ------------------------------------------------------------------ construction

\* The four groups merged in the opposite order.
MergeGroupsReversed(p) ==
  Update(Update(Update(Update(EmptyDict, p.yrecldp), p.yomcst), p.yoethf), p.yoecldp)

\* externals after the four externals.update(<group>.dict()) calls.
MergeGroups(p) ==
  Update(Update(Update(Update(EmptyDict, p.yoecldp), p.yoethf), p.yomcst), p.yrecldp)

\* The attributes of the parameter groups the literal dict reads, in the order
\* Python evaluates them.
LiteralReads ==
  << <<"yoecldp", "NCLDQI">>, <<"yoecldp", "NCLDQR">>, <<"yoecldp", "NCLDQS">>,
     <<"yoecldp", "NCLDQR">>, <<"yomcst", "RD">>, <<"yomcst", "RCPD">>,
     <<"yoethf", "RALSDCP">>, <<"yoethf", "RALVDCP">>, <<"yrecldp", "RVICE">>,
     <<"yrecldp", "RVRAIN">>, <<"yrecldp", "RVSNOW">> >>

\* Whether group.key exists (reading a missing attribute raises).
HasAttr(p, r) == r[2] \in DOMAIN p[r[1]]

\* The error raised while the literal dict is evaluated, "" when there is
\* none: the reads happen in order, the divisions right after their operands.
LiteralError(p) ==
  IF \E i \in 1..6 : ~HasAttr(p, LiteralReads[i]) THEN "AttributeError"
  ELSE IF IsZero(p.yomcst.RCPD) THEN "ZeroDivisionError"
  ELSE IF \E i \in 7..8 : ~HasAttr(p, LiteralReads[i]) THEN "AttributeError"
  ELSE IF IsZero(Minus(p.yoethf.RALSDCP, p.yoethf.RALVDCP)) THEN "ZeroDivisionError"
  ELSE IF \E i \in 9..11 : ~HasAttr(p, LiteralReads[i]) THEN "AttributeError"
  ELSE ""

\* The dict literal passed to the last externals.update (LiteralError(p) = "").
Literals(p, nlev) ==
  [ DEPICE |-> IntVal(1), EPSEC |-> FloatVal(1, -14), EPSILON |-> EpsVal(100),
    EVAPRAIN |-> IntVal(2), EVAPSNOW |-> IntVal(1),
    FALLQV |-> BoolVal(FALSE), FALLQL |-> BoolVal(FALSE), FALLQI |-> BoolVal(FALSE),
    FALLQR |-> BoolVal(TRUE), FALLQS |-> BoolVal(TRUE),
    MELTQV |-> IntVal(-99), MELTQL |-> p.yoecldp.NCLDQI, MELTQI |-> p.yoecldp.NCLDQR,
    MELTQR |-> p.yoecldp.NCLDQS, MELTQS |-> p.yoecldp.NCLDQR,
    NLEV |-> IntVal(nlev),
    PHASEQV |-> IntVal(0), PHASEQL |-> IntVal(1), PHASEQI |-> IntVal(2),
    PHASEQR |-> IntVal(1), PHASEQS |-> IntVal(2),
    RDCP |-> TrueDiv(p.yomcst.RD, p.yomcst.RCPD),
    RLDCP |-> TrueDiv(IntVal(1), Minus(p.yoethf.RALSDCP, p.yoethf.RALVDCP)),
    TW1 |-> FloatVal(132931, -2), TW2 |-> FloatVal(74615, -7),
    TW3 |-> FloatVal(85, 3), TW4 |-> FloatVal(40637, -3), TW5 |-> FloatVal(275, 0),
    VQV |-> FloatVal(0, 0), VQL |-> FloatVal(0, 0),
    VQI |-> p.yrecldp.RVICE, VQR |-> p.yrecldp.RVRAIN, VQS |-> p.yrecldp.RVSNOW,
    WARMRAIN |-> IntVal(2) ]

\* The literals merged first, the parameter groups over them.
MergeLiteralsFirst(merged, literals) == Update(literals, merged)

\* The order in which the sources are merged into externals.
MergeLiterals(merged, literals) == Update(merged, literals)

\* The externals table __init__ hands to compile_stencil.
Externals(p, nlev) == MergeLiterals(MergeGroups(p), Literals(p, nlev))

\* The stencils each component compiles, in order.
StencilsOf(e) ==
  IF e = "fused" THEN <<"cloudsc">> ELSE <<"cloudsc_tendencies", "cloudsc_fluxes">>

\* ------------------------------------------------------------------ state

VARIABLES
  params,    \* the four parameter groups read from the input file
  grid,      \* the computational grid and the state bundle allocated on it
  engine,    \* per component: status, nlev and the externals of its stencils
  compiled,  \* per component: the stencils compiled so far, in order
  mem,       \* contents of every buffer
  pool,      \* per class, the temporary storages no call holds
  call       \* per caller: where its array_call stands (pc), the component,
             \* timestep and stage calls (log) of its current or last call, the
             \* temporaries the current call holds and the buffers it has
             \* written, and n, the number of its calls that returned since the
             \* last that raised
VARIABLES
  lib        \* the evaluation of a function of the stencil library: the
             \* function, its externals and arguments, the statement it is at
             \* (pc), its local variables (env), the functions it has called
             \* and its return value
VARIABLES
  drv        \* the driver: where main / core stands (pc), the command line,
             \* the input file's dimensions, the Config built from the command
             \* line, the grid dimensions, the state bundle and the reference
             \* bundles (per field: placement, element type, initialized)

vars == <<params, grid, engine, compiled, mem, pool, call, lib, drv>>

Callers == 1..NumCallers
Timesteps == 1..MaxDt

\* ------------------------------------------------------------------ buffers

NumState == Len(InputNames)
NumTendencies == Len(TendencyNames)
NumDiagnostics == Len(DiagnosticNames)
NumOut == NumTendencies + NumDiagnostics

\* The buffer of the i-th state field, and of the i-th tendency / diagnostic
\* field of caller c.
StateBuf(i) == i
TendencyBuf(c, i) == NumState + (c - 1) * NumOut + i
DiagnosticBuf(c, i) == NumState + (c - 1) * NumOut + NumTendencies + i

StateBufs == {StateBuf(i) : i \in 1..NumState}
OutBufs(c) ==
  {TendencyBuf(c, i) : i \in 1..NumTendencies}
    \cup {DiagnosticBuf(c, i) : i \in 1..NumDiagnostics}

Repeat(x, n) == [i \in 1..n |-> x]

\* The (grid id, dtype) requests of the managed_temporary_storage blocks.
ScratchRequest == Repeat("IJ_float", 6) \o <<"IJ_bool", "Kh_int">>
IntermediateRequest == Repeat("IJK_float", 18)

TemporaryRequest(e) ==
  IF e = "fused" THEN ScratchRequest ELSE ScratchRequest \o IntermediateRequest

\* The names bound to the storages, in the order of the request.
TemporaryNames(e) ==
  IF e = "fused" THEN ScratchNames ELSE ScratchNames \o IntermediateNames

Classes == Range(TemporaryRequest("split"))

\* Number of requests of class cls in req.
Need(req, cls) == Cardinality({i \in DOMAIN req : req[i] = cls})

\* Storages of a class that can exist: what NumCallers calls can hold at once.
Capacity(cls) == NumCallers * Need(TemporaryRequest("split"), cls)

ClassOrder == <<"IJ_float", "IJ_bool", "Kh_int", "IJK_float">>

TmpBase == NumState + NumCallers * NumOut

\* The buffers of class cls are ClassBase(cls) + 1 .. ClassBase(cls) + Capacity(cls).
ClassBase ==
  [cls \in Classes |->
     TmpBase + Sum([i \in 1..(IndexOf(ClassOrder, cls) - 1) |-> Capacity(ClassOrder[i])])]

ClassBufs(cls) == (ClassBase[cls] + 1)..(ClassBase[cls] + Capacity(cls))
TmpBufs == UNION {ClassBufs(cls) : cls \in Classes}
NumBufs == TmpBase + Sum([cls \in Classes |-> Capacity(cls)])
Bufs == 1..NumBufs

\* zeros(): the contents of a new storage of a class on a grid of nz levels.
Zeros(cls, nz) == IF cls = "Kh_int" THEN Repeat(0, nz + 1) ELSE 0

\* The state bundle of the run: field i of the input file's bundle s on a grid
\* of nz levels.  f_aph is kept level by level (nz + 1 interfaces).
AphIndex == IndexOf(InputNames, <<"f", "aph">>)

InitField(s, i, nz) ==
  IF i = AphIndex THEN [l \in 1..(nz + 1) |-> (s * 7 + l * 3) % Modulus]
  ELSE (s * 11 + i * 5) % Modulus

\* ------------------------------------------------------------------ temporaries

Min(a, b) == IF a < b THEN a ELSE b

\* Rank of request i among the requests of its class up to i.
RankInClass(req, i) == Cardinality({j \in 1..i : req[j] = req[i]})

\* Per component: the number of requests of each class, the rank of each
\* request in its class, and the position of each name of the "as" clause.
Needs ==
  Eager([e \in Variants |-> Eager([cls \in Classes |-> Need(TemporaryRequest(e), cls)])])

Ranks ==
  Eager([e \in Variants |->
           Eager([i \in DOMAIN TemporaryRequest(e) |-> RankInClass(TemporaryRequest(e), i)])])

Positions ==
  Eager([e \in Variants |->
           Eager([n \in Range(TemporaryNames(e)) |-> IndexOf(TemporaryNames(e), n)])])

\* The k lowest buffers of S, in order.
RECURSIVE Lowest(_, _)
Lowest(S, k) ==
  IF k = 0 \/ S = {} THEN <<>>
  ELSE LET b == CHOOSE x \in S : \A y \in S : x <= y
       IN <<b>> \o Lowest(S \ {b}, k - 1)

\* managed_temporary_storage, on entry: each request of component e takes a
\* storage of its class that no call holds.
Storages(pl, e) ==
  LET req == TemporaryRequest(e)
      low == Eager([cls \in Classes |-> Lowest(pl[cls], Needs[e][cls])])
  IN Eager([i \in DOMAIN req |-> low[req[i]][Ranks[e][i]]])

\* The pool once the storages st are taken.
Taken(pl, st) == [cls \in Classes |-> pl[cls] \ Range(st)]

\* Whether the storages of component e can be provided.
CanAcquire(pl, e) == \A cls \in Classes : Needs[e][cls] <= Cardinality(pl[cls])

\* managed_temporary_storage, on exit: every storage goes back to its class.
Released(pl, e, st) ==
  LET req == TemporaryRequest(e)
  IN [cls \in Classes |-> pl[cls] \cup {st[i] : i \in {j \in DOMAIN req : req[j] = cls}}]

\* A with-block that hands every call the same storages.
CallTemporariesCached(e, pl) ==
  LET st == Storages([cls \in Classes |-> ClassBufs(cls)], e)
  IN Eager([n \in DOMAIN Positions[e] |-> st[Positions[e][n]]])

\* The storages the with-block binds to the names of its "as" clause.
CallTemporaries(e, pl) ==
  LET st == Storages(pl, e)
  IN Eager([n \in DOMAIN Positions[e] |-> st[Positions[e][n]]])

\* The storages of a call, in the order they were requested.
StoragesOf(e, tmp) ==
  Eager([i \in DOMAIN TemporaryNames(e) |-> tmp[TemporaryNames(e)[i]]])

\* An exit on an exception that returns nothing to the pool.
ReleasedOnErrorLeaking(pl, e, tmp) == pl

\* The exit of the with-block after the stages returned, and after one raised.
ReleasedOnReturn(pl, e, tmp) == Released(pl, e, StoragesOf(e, tmp))
ReleasedOnError(pl, e, tmp) == Released(pl, e, StoragesOf(e, tmp))

\* ------------------------------------------------------------------ argument dicts

\* The prefix and what follows the last underscore of the name.
ArgNameLast(prefix, n) == prefix \o <<n[Len(n)]>>

\* prefix + name.split("_", maxsplit=1)[1]
ArgName(prefix, n) == prefix \o Tail(n)

\* {ArgName(prefix, names[i]): bundle[i] for i in order}: a later name wins.
DictComp(prefix, names, bundle) ==
  Eager([a \in {ArgName(prefix, names[i]) : i \in DOMAIN names} |->
           bundle[CHOOSE i \in DOMAIN names :
                    /\ ArgName(prefix, names[i]) = a
                    /\ \A j \in DOMAIN names : ArgName(prefix, names[j]) = a => j <= i]])

\* The dict "inputs".
InputsDict ==
  DictComp(<<"in">>, InputNames, [i \in DOMAIN InputNames |-> StateBuf(i)])

\* The dict "tendencies" of each caller's call.
TendenciesDicts ==
  Eager([c \in Callers |->
           DictComp(<<"out", "tnd", "loc">>, TendencyNames,
                    [i \in DOMAIN TendencyNames |-> TendencyBuf(c, i)])])

TendenciesDict(c) == TendenciesDicts[c]

\* A lookup of the diagnostics among the plain fields of the state bundle.
DiagnosticsFromState(c, i) == StateBuf(i + 4)

\* out_diagnostics[name]
DiagnosticsBundle(c, i) == DiagnosticBuf(c, i)

\* The dict "diagnostics" of each caller's call.
DiagnosticsDicts ==
  Eager([c \in Callers |->
           DictComp(<<"out">>, DiagnosticNames,
                    [i \in DOMAIN DiagnosticNames |-> DiagnosticsBundle(c, i)])])

DiagnosticsDict(c) == DiagnosticsDicts[c]

TmpName(n) == <<"tmp">> \o n

\* The dict literal "temporaries".
TemporariesDict(tmp) ==
  Eager([a \in {TmpName(n) : n \in Range(ScratchNames)} |-> tmp[Tail(a)]])

InVfi == <<"in", "vfi">>
InVfl == <<"in", "vfl">>
InAph == <<"in", "aph">>
OutCovptot == <<"out", "covptot">>
OutRainfrac == <<"out", "rainfrac", "toprfz">>
TmpAphS == <<"tmp", "aph", "s">>
TmpKlevel == <<"tmp", "klevel">>

\* inputs.copy() without in_vfi and in_vfl.
Inputs1(inputs) == Restrict(inputs, DOMAIN inputs \ {InVfi, InVfl})

\* The dict literal "diagnostics1".
Diagnostics1(diagnostics, tmp) ==
  Eager([a \in {OutCovptot, OutRainfrac}
                 \cup {<<"out">> \o n : n \in Range(IntermediateNames)} |->
           IF a \in {OutCovptot, OutRainfrac} THEN diagnostics[a] ELSE tmp[Tail(a)]])

\* "inputs2" with in_vfi and in_vfl exchanged.
Inputs2SwappedVf(inputs, tmp) ==
  Eager([a \in {InAph, InVfi, InVfl}
                 \cup {<<"in">> \o n : n \in Range(IntermediateNames)} |->
           IF a = InAph THEN inputs[a]
           ELSE IF a = InVfi THEN inputs[InVfl]
           ELSE IF a = InVfl THEN inputs[InVfi]
           ELSE tmp[Tail(a)]])

\* "inputs2" with in_qi0 bound to qin.
Inputs2CrossedQi(inputs, tmp) ==
  Eager([a \in {InAph, InVfi, InVfl}
                 \cup {<<"in">> \o n : n \in Range(IntermediateNames)} |->
           IF a \in {InAph, InVfi, InVfl} THEN inputs[a]
           ELSE IF a = <<"in", "qi0">> THEN tmp[<<"qin">>]
           ELSE tmp[Tail(a)]])

\* The dict literal "inputs2".
Inputs2(inputs, tmp) ==
  Eager([a \in {InAph, InVfi, InVfl}
                 \cup {<<"in">> \o n : n \in Range(IntermediateNames)} |->
           IF a \in {InAph, InVfi, InVfl} THEN inputs[a] ELSE tmp[Tail(a)]])

\* "outputs2" that keeps out_covptot.
Outputs2KeepingCovptot(diagnostics) ==
  Restrict(diagnostics, DOMAIN diagnostics \ {OutRainfrac})

\* diagnostics.copy() without out_covptot and out_rainfrac_toprfz.
Outputs2(diagnostics) ==
  Restrict(diagnostics, DOMAIN diagnostics \ {OutCovptot, OutRainfrac})

\* f(**d1, **d2, ...): a keyword given twice is a TypeError.
KwargsClash(ds) ==
  \E i, j \in DOMAIN ds : i < j /\ DOMAIN ds[i] \cap DOMAIN ds[j] # {}

RECURSIVE Merged(_, _)
Merged(ds, i) == IF i = 0 THEN EmptyDict ELSE ds[i] @@ Merged(ds, i - 1)

Kwargs(ds) == Merged(ds, Len(ds))

\* ------------------------------------------------------------------ stages

\* The stage kernels stand for the physics as functions of exactly what a stage
\* reads: every value a stage writes depends on every value it reads, and the
\* fused stage computes what the tendency stage followed by the flux stage
\* computes.

SeqMix(q) == Sum([l \in DOMAIN q |-> (l * q[l]) % Modulus]) % Modulus

ValMix(v) == (Abs(v[2]) + Abs(v[3]) + Abs(v[4])) % Modulus

\* What the externals bound at compile time contribute to a stage.
ExtMix(ext) == Sum([k \in DOMAIN ext |-> ValMix(ext[k])]) % Modulus

InArg == [i \in 1..NumState |-> ArgName(<<"in">>, InputNames[i])]

\* The state fields the tendency computation reads as plain fields.
TendencyInputs == {i \in 1..NumState : InArg[i] \notin {InVfi, InVfl, InAph}}

TendencyBase(args, m, aphs, dt, ext) ==
  ( Sum([i \in TendencyInputs |-> (i * m[args[InArg[i]]]) % Modulus])
    + 37 * SeqMix(m[args[InAph]]) + 41 * SeqMix(m[args[TmpKlevel]])
    + 43 * aphs + 47 * dt + ExtMix(ext) ) % Modulus

TendencyValue(i, base) == (base * (i + 1) + i) % Modulus
CovptotValue(base) == (base * 19 + 1) % Modulus
RainfracValue(base) == (base * 23 + 2) % Modulus
IntermediateValue(j, base) == (base + 3 * j + 1) % Modulus
ScratchValue(i, base) == (base + 5 * i + 60) % Modulus

\* mid: the 18 intermediates, in the order of IntermediateNames.
FluxBase(mid, vfi, vfl, aph, dt, ext) ==
  ( Sum([j \in DOMAIN mid |-> (j * mid[j]) % Modulus])
    + 53 * vfi + 59 * vfl + 61 * SeqMix(aph) + 67 * dt + ExtMix(ext) ) % Modulus

FluxValue(k, fb) == (fb * (k + 1) + k) % Modulus

\* The diagnostics the flux computation produces (positions in DiagnosticNames).
FluxDiagnostics ==
  SelectSeq([k \in 1..NumDiagnostics |-> k],
            LAMBDA k : ArgName(<<"out">>, DiagnosticNames[k]) \notin {OutCovptot, OutRainfrac})

\* The writes of a stage, <<argument, value>> in order.
TendencyWrites(base) ==
  [i \in 1..NumTendencies |->
     <<ArgName(<<"out", "tnd", "loc">>, TendencyNames[i]), TendencyValue(i, base)>>]
  \o << <<OutCovptot, CovptotValue(base)>>, <<OutRainfrac, RainfracValue(base)>> >>
  \o [i \in 1..6 |-> <<TmpName(ScratchNames[i + 1]), ScratchValue(i, base)>>]

IntermediateWrites(base) ==
  [j \in DOMAIN IntermediateNames |->
     <<(<<"out">> \o IntermediateNames[j]), IntermediateValue(j, base)>>]

FluxWrites(fb) ==
  [i \in DOMAIN FluxDiagnostics |->
     <<ArgName(<<"out">>, DiagnosticNames[FluxDiagnostics[i]]),
       FluxValue(FluxDiagnostics[i], fb)>>]

StageWrites(st, args, m, dt, ext) ==
  IF st = "cloudsc" THEN
    LET aphs == m[args[InAph]][Len(m[args[InAph]])]
        base == TendencyBase(args, m, aphs, dt, ext)
        mid == [j \in DOMAIN IntermediateNames |-> IntermediateValue(j, base)]
        fb == FluxBase(mid, m[args[InVfi]], m[args[InVfl]], m[args[InAph]], dt, ext)
    IN << <<TmpAphS, aphs>> >> \o TendencyWrites(base) \o FluxWrites(fb)
  ELSE IF st = "cloudsc_tendencies" THEN
    LET base == TendencyBase(args, m, m[args[TmpAphS]], dt, ext)
    IN TendencyWrites(base) \o IntermediateWrites(base)
  ELSE
    LET mid == [j \in DOMAIN IntermediateNames |-> m[args[<<"in">> \o IntermediateNames[j]]]]
        fb == FluxBase(mid, m[args[InVfi]], m[args[InVfl]], m[args[InAph]], dt, ext)
    IN FluxWrites(fb)

\* The temporaries a stage reads before it has written them itself.
StageReads(st) ==
  IF st = "cloudsc" THEN {TmpKlevel}
  ELSE IF st = "cloudsc_tendencies" THEN {TmpAphS, TmpKlevel}
  ELSE {<<"in">> \o n : n \in Range(IntermediateNames)}

\* Memory after the first i writes of ws went through args.
RECURSIVE Store(_, _, _, _)
Store(m, args, ws, i) ==
  IF i = 0 THEN m
  ELSE [Store(m, args, ws, i - 1) EXCEPT ![args[ws[i][1]]] = ws[i][2]]

WrittenBufs(args, ws) == {args[ws[i][1]] : i \in DOMAIN ws}

\* ------------------------------------------------------------------ construction steps

NoEngine == [status |-> "absent", nlev |-> 0, stencils |-> EmptyDict]

\* An __init__ of the split component that counts the interface levels.
ConstructedSplitInterfaces(e, p, nlev) ==
  IF LiteralError(p) # ""
  THEN [status |-> "raised", nlev |-> 0, stencils |-> EmptyDict]
  ELSE [status |-> "built", nlev |-> nlev,
        stencils |-> Eager([st \in Range(StencilsOf(e)) |->
                              Externals(p, IF e = "split" THEN nlev + 1 ELSE nlev)])]

\* An __init__ that skips the literals it cannot evaluate.
ConstructedLenient(e, p, nlev) ==
  [status |-> "built", nlev |-> nlev,
   stencils |-> Eager([st \in Range(StencilsOf(e)) |->
                         IF LiteralError(p) # "" THEN MergeGroups(p)
                         ELSE Externals(p, nlev)])]

\* __init__ with parameter groups p on a grid of nlev levels: the instance, or
\* the error raised before it exists.
Constructed(e, p, nlev) ==
  IF LiteralError(p) # ""
  THEN [status |-> "raised", nlev |-> 0, stencils |-> EmptyDict]
  ELSE [status |-> "built", nlev |-> nlev,
        stencils |-> Eager([st \in Range(StencilsOf(e)) |-> Externals(p, nlev)])]

Construct(e) ==
  /\ engine[e].status = "absent"
  /\ engine' = [engine EXCEPT ![e] = Constructed(e, params, grid.nz)]
  /\ compiled' = [compiled EXCEPT ![e] =
                    IF engine'[e].status = "built" THEN StencilsOf(e) ELSE <<>>]
  /\ UNCHANGED <<params, grid, mem, pool, call, lib, drv>>

\* ------------------------------------------------------------------ array_call

\* timestep.total_seconds() of a timedelta of ts whole seconds.
TotalSeconds(ts) == ts

\* The precision of the configuration: that of the evaluation where a library
\* evaluation names one, the driver's default otherwise.
Precision == IF lib.fn = "array_call.dt" THEN lib.ext.precision ELSE "double"

\* The distance between neighbouring single-precision numbers about the whole
\* number x >= 0: a single-precision number has 24 significant bits.
RECURSIVE Spacing(_, _)
Spacing(x, s) == IF x \div s < 16777216 THEN s ELSE Spacing(x, 2 * s)

\* The single-precision number nearest to the whole number x >= 0, the one
\* with the even significand where two are equally near.
SingleFloat(x) ==
  LET s == Spacing(x, 1)
      q == x \div s
      r == x % s
  IN IF 2 * r < s THEN q * s
     ELSE IF 2 * r > s THEN (q + 1) * s
     ELSE IF q % 2 = 0 THEN q * s ELSE (q + 1) * s

\* gt4py_config.dtypes.float(x): x as a float of the configured precision.
\* Double precision keeps every whole number of the model.
DtypesFloat(x) == IF Precision = "single" THEN SingleFloat(x) ELSE x

\* The dt argument of the stage calls.
DtArg(e, ts) == IF e = "fused" THEN DtypesFloat(TotalSeconds(ts)) ELSE TotalSeconds(ts)

\* The whole numbers 1 .. n.
ArangeFromOne(n) == [i \in 1..n |-> i]

\* np.arange(n)
Arange(n) == [i \in 1..n |-> i - 1]

\* Assignments that leave aph_s as the storage came.
PrepareKlevelOnly(e, nlev, tmp, m) ==
  [m EXCEPT ![tmp[<<"klevel">>]] = Arange(nlev + 1)]

\* The assignments array_call makes before the first stage call.
Prepare(e, nlev, tmp, m) ==
  IF e = "fused"
  THEN [m EXCEPT ![tmp[<<"klevel">>]] = Arange(nlev + 1)]
  ELSE [m EXCEPT ![tmp[<<"aph", "s">>]] = m[InputsDict[InAph]][nlev + 1],
                 ![tmp[<<"klevel">>]] = Arange(nlev + 1)]

Prepared(e, tmp) ==
  IF e = "fused" THEN {tmp[<<"klevel">>]} ELSE {tmp[<<"aph", "s">>], tmp[<<"klevel">>]}

\* The dicts unpacked into the call of stencil st, in order.
StageDicts(st, c, tmp) ==
  IF st = "cloudsc"
  THEN <<InputsDict, TendenciesDict(c), DiagnosticsDict(c), TemporariesDict(tmp)>>
  ELSE IF st = "cloudsc_tendencies"
  THEN <<Inputs1(InputsDict), TendenciesDict(c),
         Diagnostics1(DiagnosticsDict(c), tmp), TemporariesDict(tmp)>>
  ELSE <<Inputs2(InputsDict, tmp), Outputs2(DiagnosticsDict(c))>>

\* Every stage over the full levels.
StageDomainFull(st) == <<grid.nx, 1, grid.nz>>

\* grids[I, J, K].shape for cloudsc_tendencies, grids[I, J, K - 1/2].shape else.
StageDomain(st) ==
  IF st = "cloudsc_tendencies" THEN <<grid.nx, 1, grid.nz>> ELSE <<grid.nx, 1, grid.nz + 1>>

\* A call that stores the level count of its grid back into the externals.
InstanceAfterCallStoring(inst) ==
  [inst EXCEPT !.stencils =
     Eager([st \in DOMAIN inst.stencils |->
              Update(inst.stencils[st], [NLEV |-> IntVal(inst.nlev + 1)])])]

\* What array_call leaves of the instance: it assigns no attribute of self.
InstanceAfterCall(inst) == inst

Idle ==
  [pc |-> "idle", engine |-> "none", ts |-> 0, tmp |-> EmptyDict, log |-> <<>>,
   written |-> {}, n |-> 0]

\* Entry of array_call up to the first stage call.
Enter(c, e, ts) ==
  /\ call[c].pc = "idle"
  /\ engine[e].status = "built"
  /\ CanAcquire(pool, e)
  /\ LET tmp == CallTemporaries(e, pool)
     IN /\ pool' = Taken(pool, StoragesOf(e, tmp))
        /\ mem' = Prepare(e, engine[e].nlev, tmp, mem)
        /\ call' = [call EXCEPT ![c] =
                      [pc |-> "entered", engine |-> e, ts |-> ts, tmp |-> tmp,
                       log |-> <<>>, written |-> Prepared(e, tmp), n |-> @.n]]
  /\ UNCHANGED <<params, grid, engine, compiled, lib, drv>>

\* The call leaves the with-block on an exception.
Raise(c) ==
  /\ pool' = ReleasedOnError(pool, call[c].engine, call[c].tmp)
  /\ call' = [call EXCEPT ![c].pc = "idle", ![c].tmp = EmptyDict,
                          ![c].written = {}, ![c].n = 0]
  /\ UNCHANGED <<params, grid, engine, compiled, mem, lib, drv>>

\* One stencil call of array_call; last tells whether the block ends after it.
RunStage(c, st, last) ==
  LET cl == call[c]
      e == cl.engine
      ds == StageDicts(st, c, cl.tmp)
  IN IF KwargsClash(ds) THEN Raise(c)
     ELSE
       LET args == Kwargs(ds)
           ext == engine[e].stencils[st]
           dt == DtArg(e, cl.ts)
           ws == StageWrites(st, args, mem, dt, ext)
           inv == [stencil |-> st, args |-> args, dt |-> dt, origin |-> <<0, 0, 0>>,
                   domain |-> StageDomain(st), externals |-> ext,
                   held |-> Range(cl.tmp), wrote |-> WrittenBufs(args, ws),
                   stale |-> {a \in StageReads(st) :
                                args[a] \in TmpBufs \ cl.written}]
       IN /\ mem' = Store(mem, args, ws, Len(ws))
          /\ engine' = [engine EXCEPT ![e] = InstanceAfterCall(@)]
          /\ IF last
             THEN /\ pool' = ReleasedOnReturn(pool, e, cl.tmp)
                  /\ call' = [call EXCEPT ![c] =
                                [cl EXCEPT !.pc = "idle", !.tmp = EmptyDict,
                                           !.log = Append(@, inv),
                                           !.written = {},
                                           !.n = Min(@ + 1, MaxRuns)]]
             ELSE /\ pool' = pool
                  /\ call' = [call EXCEPT ![c] =
                                [cl EXCEPT !.pc = "between",
                                           !.log = Append(@, inv),
                                           !.written = @ \cup WrittenBufs(args, ws)]]
          /\ UNCHANGED <<params, grid, compiled, lib, drv>>

RunFused(c) ==
  /\ call[c].pc = "entered"
  /\ call[c].engine = "fused"
  /\ RunStage(c, "cloudsc", TRUE)

RunTendencies(c) ==
  /\ call[c].pc = "entered"
  /\ call[c].engine = "split"
  /\ RunStage(c, "cloudsc_tendencies", FALSE)

RunFluxes(c) ==
  /\ call[c].pc = "between"
  /\ RunStage(c, "cloudsc_fluxes", TRUE)

\* A stage call raises (argument validation, backend error) before it writes.
StageRaises(c) ==
  /\ call[c].pc \in {"entered", "between"}
  /\ Raise(c)

\* ------------------------------------------------------------------ stencil library

\* The functions of physics/_stencils work on floating-point numbers.  Here a
\* number is a whole count of units of 1 / Scale, and every product and
\* quotient is rounded to the nearest such count, as floating-point arithmetic
\* rounds to the nearest representable number.

\* n / d (d # 0) rounded to the nearest integer, halves upwards.
Round(n, d) == IF d > 0 THEN (2 * n + d) \div (2 * d) ELSE (d - 2 * n) \div (-2 * d)

\* The number n / d.
Fix(n, d) == Round(n * Scale, d)

\* Besides the finite numbers a floating-point value is +infinity, -infinity
\* or not-a-number; they stand beyond every finite number of the model.
Inf == Scale * Scale * Scale * Scale
NaN == Inf + 1

IsNaN(a) == a = NaN
IsInf(a) == a = Inf \/ a = -Inf
Finite(a) == ~IsNaN(a) /\ ~IsInf(a)

\* -1, 0 or 1
Sign(a) == IF a < 0 THEN -1 ELSE IF a = 0 THEN 0 ELSE 1

\* The operators below take their arguments by value: x and y are the values
\* of a and b.

\* -a, a + b and a - b
Neg(a) == CHOOSE r \in {IF IsNaN(x) THEN NaN ELSE -x : x \in {a}} : TRUE
Add(a, b) ==
  CHOOSE r \in
    {IF IsNaN(x) \/ IsNaN(y) THEN NaN
     ELSE IF IsInf(x) THEN (IF IsInf(y) /\ y # x THEN NaN ELSE x)
     ELSE IF IsInf(y) THEN y
     ELSE x + y : x \in {a}, y \in {b}} : TRUE
Sub(a, b) == Add(a, Neg(b))

\* a * b
Times(a, b) ==
  CHOOSE r \in
    {IF IsNaN(x) \/ IsNaN(y) THEN NaN
     ELSE IF IsInf(x) \/ IsInf(y)
     THEN (IF x = 0 \/ y = 0 THEN NaN ELSE Sign(x) * Sign(y) * Inf)
     ELSE Round(x * y, Scale) : x \in {a}, y \in {b}} : TRUE

\* a / b with a check of the divisor: 0 where the divisor is 0.
OverChecked(a, b) ==
  CHOOSE r \in
    {IF IsNaN(x) \/ IsNaN(y) THEN NaN
     ELSE IF y = 0 THEN 0
     ELSE IF IsInf(x) THEN (IF IsInf(y) THEN NaN ELSE Sign(x) * Sign(y) * Inf)
     ELSE IF IsInf(y) THEN 0
     ELSE Round(x * Scale, y) : x \in {a}, y \in {b}} : TRUE

\* a / b; a difference that is zero is +0, so a division by it gives the
\* infinity of the sign of a, and not-a-number when a is zero.
Over(a, b) ==
  CHOOSE r \in
    {IF IsNaN(x) \/ IsNaN(y) THEN NaN
     ELSE IF y = 0 THEN (IF x = 0 THEN NaN ELSE Sign(x) * Inf)
     ELSE IF IsInf(x) THEN (IF IsInf(y) THEN NaN ELSE Sign(x) * Sign(y) * Inf)
     ELSE IF IsInf(y) THEN 0
     ELSE Round(x * Scale, y) : x \in {a}, y \in {b}} : TRUE

\* a ** 2
Square(a) == CHOOSE r \in {Times(x, x) : x \in {a}} : TRUE

\* min and max of a and b one of which is not-a-number differ between the
\* backends: not-a-number (numpy), the first argument (a comparison that is
\* false) or the other argument (fmin, fmax).
OfNaN(a, b) ==
  IF lib.nan = "propagated" THEN NaN
  ELSE IF lib.nan = "first" THEN a
  ELSE IF IsNaN(a) THEN b ELSE a

\* min(a, b) and max(a, b)
MinOf(a, b) ==
  CHOOSE r \in
    {IF IsNaN(x) \/ IsNaN(y) THEN OfNaN(x, y) ELSE IF y < x THEN y ELSE x :
       x \in {a}, y \in {b}} : TRUE
MaxOf(a, b) ==
  CHOOSE r \in
    {IF IsNaN(x) \/ IsNaN(y) THEN OfNaN(x, y) ELSE IF x < y THEN y ELSE x :
       x \in {a}, y \in {b}} : TRUE

\* exp(x): for x < 2 by its rational approximant (2 + x) / (2 - x).
Exp(x) ==
  CHOOSE r \in
    {IF IsNaN(v) THEN NaN
     ELSE IF v = Inf THEN Inf
     ELSE IF v = -Inf THEN 0
     ELSE Over(Fix(2, 1) + v, Fix(2, 1) - v) : v \in {x}} : TRUE

\* f_foedelta with the comparison t >= RTT.
FoedeltaFrom(ext, t) == IF t >= ext.RTT THEN Fix(1, 1) ELSE Fix(0, 1)

\* f_foedelta
Foedelta(ext, t) == IF t > ext.RTT THEN Fix(1, 1) ELSE Fix(0, 1)

\* f_foealfa without the clamp of the temperature to [RTICE, RTWAT].
FoealfaUnclamped(ext, t) ==
  MinOf(Fix(1, 1), Square(Times(Sub(t, ext.RTICE), ext.RTWAT_RTICE_R)))

\* f_foealfa
Foealfa(ext, t) ==
  MinOf(Fix(1, 1),
        Square(Times(Sub(MaxOf(ext.RTICE, MinOf(ext.RTWAT, t)), ext.RTICE),
                     ext.RTWAT_RTICE_R)))

\* f_foeewm
Foeewm(ext, t) ==
  Times(ext.R2ES,
        Add(Times(Foealfa(ext, t),
                  Exp(Over(Times(ext.R3LES, Sub(t, ext.RTT)), Sub(t, ext.R4LES)))),
            Times(Sub(Fix(1, 1), Foealfa(ext, t)),
                  Exp(Over(Times(ext.R3IES, Sub(t, ext.RTT)), Sub(t, ext.R4IES))))))

\* f_foedem
Foedem(ext, t) ==
  Add(Times(Times(Foealfa(ext, t), ext.R5ALVCP),
            Over(Fix(1, 1), Square(Sub(t, ext.R4LES)))),
      Times(Times(Sub(Fix(1, 1), Foealfa(ext, t)), ext.R5ALSCP),
            Over(Fix(1, 1), Square(Sub(t, ext.R4IES)))))

\* f_foeldcpm
Foeldcpm(ext, t) ==
  Add(Times(Foealfa(ext, t), ext.RALVDCP),
      Times(Sub(Fix(1, 1), Foealfa(ext, t)), ext.RALSDCP))

\* f_foeeliq
Foeeliq(ext, t) ==
  Times(ext.R2ES, Exp(Over(Times(ext.R3LES, Sub(t, ext.RTT)), Sub(t, ext.R4LES))))

\* f_foeeice
Foeeice(ext, t) ==
  Times(ext.R2ES, Exp(Over(Times(ext.R3IES, Sub(t, ext.RTT)), Sub(t, ext.R4IES))))

\* f_cuadjtq_5 without the statement "qsat *= cor".
QsatUncorrected(qsat, cor) == qsat

\* The statement "qsat *= cor" of f_cuadjtq_5.
QsatCorrected(qsat, cor) == Times(qsat, cor)

\* The local variables of f_cuadjtq_5(qp, qsmix, t) when it returns.
Cuadjtq5Env(ext, qp, qsmix, t) ==
  LET qsat0 == MinOf(Times(Foeewm(ext, t), qp), Fix(1, 2))
      cor == Over(Fix(1, 1), Sub(Fix(1, 1), Times(ext.RETV, qsat0)))
      qsat == QsatCorrected(qsat0, cor)
      cond == Over(Sub(qsmix, qsat),
                   Add(Fix(1, 1), Times(Times(qsat, cor), Foedem(ext, t))))
  IN [qsat |-> qsat, cor |-> cor, cond |-> cond,
      t |-> Add(t, Times(Foeldcpm(ext, t), cond)),
      qsmix |-> Sub(qsmix, cond)]

\* f_cuadjtq_5: the pair it returns.
Cuadjtq5(ext, qp, qsmix, t) ==
  LET env == Cuadjtq5Env(ext, qp, qsmix, t) IN <<env.qsmix, env.t>>

\* ------------------------------------------------------------------ library calls

\* The body of f_cuadjtq with one call of f_cuadjtq_5.
CuadjtqBodyOnce == <<"qp", "f_cuadjtq_5", "return">>

\* The statements of the body of f_cuadjtq, in order.
CuadjtqBody == <<"qp", "f_cuadjtq_5", "f_cuadjtq_5", "return">>

\* A pointwise function called on a field: every element is replaced by the
\* function's value on it.
OnField(fn, ext, field) ==
  [i \in DOMAIN field |->
     IF fn = "f_foedelta" THEN Foedelta(ext, field[i])
     ELSE IF fn = "f_foeeliq" THEN Foeeliq(ext, field[i])
     ELSE IF fn = "f_foeeice" THEN Foeeice(ext, field[i])
     ELSE Foealfa(ext, field[i])]

\* f_foedelta, f_foealfa, f_foeeliq or f_foeeice evaluated on a field of
\* temperatures.
EvalOnField ==
  /\ lib.fn \in {"f_foedelta", "f_foealfa", "f_foeeliq", "f_foeeice"}
  /\ lib.pc = "called"
  /\ lib' = [lib EXCEPT !.pc = "done", !.out = OnField(lib.fn, lib.ext, lib.args)]
  /\ UNCHANGED <<params, grid, engine, compiled, mem, pool, call, drv>>

\* One statement of f_cuadjtq.
CuadjtqStep ==
  /\ lib.fn = "f_cuadjtq"
  /\ lib.pc = "called"
  /\ LET stmt == CuadjtqBody[lib.at]
         env == lib.env
     IN lib' =
          IF stmt = "qp"
          THEN [lib EXCEPT !.env = [qp |-> Over(Fix(1, 1), env.ap)] @@ env,
                           !.at = @ + 1]
          ELSE IF stmt = "f_cuadjtq_5"
          THEN LET r == Cuadjtq5Env(lib.ext, env.qp, env.qsmix, env.t)
               IN [lib EXCEPT !.env = [env EXCEPT !.qsmix = r.qsmix, !.t = r.t],
                              !.calls = Append(@, [fn |-> "f_cuadjtq_5",
                                                   args |-> <<env.qp, env.qsmix, env.t>>,
                                                   cond |-> r.cond,
                                                   out |-> <<r.qsmix, r.t>>]),
                              !.at = @ + 1]
          ELSE [lib EXCEPT !.pc = "done", !.out = <<env.qsmix, env.t>>]
  /\ UNCHANGED <<params, grid, engine, compiled, mem, pool, call, drv>>

\* The dt keyword of the three stage calls for one timestep.
EvalDt ==
  /\ lib.fn = "array_call.dt"
  /\ lib.pc = "called"
  /\ lib' = [lib EXCEPT !.pc = "done",
                        !.out = [st \in Range(StencilsOf("fused")) \cup Range(StencilsOf("split")) |->
                                   DtArg(IF st \in Range(StencilsOf("fused")) THEN "fused" ELSE "split",
                                         lib.args[1])]]
  /\ UNCHANGED <<params, grid, engine, compiled, mem, pool, call, drv>>

\* ------------------------------------------------------------------ field initialization

\* Arrays are functions of 0-based index tuples.
Indices(shape) ==
  {x \in [1..Len(shape) -> 0..(MaxCols + MaxLevs)] : \A d \in 1..Len(shape) : x[d] < shape[d]}

\* The loop "for b in range(nb)" of initialize_storage_2d, after b rounds.
RECURSIVE Loop2d(_, _, _, _)
Loop2d(storage, buffer, mi, b) ==
  IF b = 0 THEN storage
  ELSE LET prev == Loop2d(storage, buffer, mi, b - 1)
       IN [x \in DOMAIN prev |->
             IF (b - 1) * mi <= x[1] /\ x[1] < b * mi /\ x[2] = 0
             THEN buffer[<<x[1] - (b - 1) * mi>>] ELSE prev[x]]

\* initialize_storage_2d without the assignment after the loop.
InitializeStorage2dBlocks(storage, ni, buffer, mi) ==
  Loop2d(storage, buffer, mi, ni \div mi)

\* initialize_storage_2d: the storage it leaves (buffer of mi >= 1 elements).
InitializeStorage2d(storage, ni, buffer, mi) ==
  LET nb == ni \div mi
      looped == Loop2d(storage, buffer, mi, nb)
  IN [x \in DOMAIN looped |->
        IF nb * mi <= x[1] /\ x[2] = 0 THEN buffer[<<x[1] - nb * mi>>] ELSE looped[x]]

\* The loop "for b in range(nb)" of initialize_storage_3d, after b rounds.
RECURSIVE Loop3d(_, _, _, _, _)
Loop3d(storage, buffer, mi, lk, b) ==
  IF b = 0 THEN storage
  ELSE LET prev == Loop3d(storage, buffer, mi, lk, b - 1)
       IN [x \in DOMAIN prev |->
             IF (b - 1) * mi <= x[1] /\ x[1] < b * mi /\ x[2] = 0 /\ x[3] < lk
             THEN buffer[<<x[1] - (b - 1) * mi, x[3]>>] ELSE prev[x]]

\* initialize_storage_3d: the storage it leaves (buffer of shape (mi, mk)).
InitializeStorage3d(storage, ni, nk, buffer, mi, mk) ==
  LET lk == IF nk < mk THEN nk ELSE mk
      nb == ni \div mi
      looped == Loop3d(storage, buffer, mi, lk, nb)
  IN [x \in DOMAIN looped |->
        IF nb * mi <= x[1] /\ x[2] = 0 /\ x[3] < lk
        THEN buffer[<<x[1] - nb * mi, x[3]>>] ELSE looped[x]]

\* An initialize_field that returns without a word on a rank it does not know.
FieldInitializerSilent(ndim) ==
  IF ndim = 2 THEN "initialize_storage_2d"
  ELSE IF ndim = 3 THEN "initialize_storage_3d"
  ELSE "return"

\* The branch initialize_field takes on a field of rank ndim.
FieldInitializer(ndim) ==
  IF ndim = 2 THEN "initialize_storage_2d"
  ELSE IF ndim = 3 THEN "initialize_storage_3d"
  ELSE "ValueError"

\* initialize_field(field, buffer)
InitializeField ==
  /\ lib.fn = "initialize_field"
  /\ lib.pc = "called"
  /\ LET a == lib.args
         branch == FieldInitializer(Len(a.shape))
     IN lib' =
          IF branch = "initialize_storage_2d"
          THEN [lib EXCEPT !.pc = "done", !.calls = <<branch>>,
                           !.env = [storage |->
                                      InitializeStorage2d(a.storage, a.shape[1],
                                                          a.buffer, a.bshape[1])]]
          ELSE IF branch = "initialize_storage_3d"
          THEN [lib EXCEPT !.pc = "done", !.calls = <<branch>>,
                           !.env = [storage |->
                                      InitializeStorage3d(a.storage, a.shape[1], a.shape[3],
                                                          a.buffer, a.bshape[1], a.bshape[2])]]
          ELSE IF branch = "ValueError"
          THEN [lib EXCEPT !.pc = "raised", !.out = <<branch>>]
          ELSE [lib EXCEPT !.pc = "done"]
  /\ UNCHANGED <<params, grid, engine, compiled, mem, pool, call, drv>>

\* ------------------------------------------------------------------ providers

\* Placement and element type of the fields of input_grid_properties,
\* tendency_grid_properties and diagnostic_grid_properties (element type float
\* where the entry names none); "IJKh" is (I, J, K - 1/2).
InputGridProperties ==
  [n \in Range(InputNames) |->
     IF n = <<"b", "convection", "on">> THEN <<"IJ", "bool">>
     ELSE IF n = <<"i", "convection", "type">> THEN <<"IJ", "int">>
     ELSE IF n = <<"f", "lsm">> THEN <<"IJ", "float">>
     ELSE IF n = <<"f", "aph">> THEN <<"IJKh", "float">>
     ELSE <<"IJK", "float">>]

TendencyGridProperties == [n \in Range(TendencyNames) |-> <<"IJK", "float">>]

DiagnosticGridProperties ==
  [n \in Range(DiagnosticNames) |->
     IF n = <<"f", "covptot">> THEN <<"IJK", "float">>
     ELSE IF n = <<"f", "rainfrac", "toprfz">> THEN <<"IJ", "float">>
     ELSE <<"IJKh", "float">>]

\* The fields of the dict allocate_state returns, which are the keys of
\* field_properties in setup.get_state ("time" aside).
StateNames ==
  {<<"b", "convection", "on">>, <<"f", "a">>, <<"f", "ap">>, <<"f", "aph">>,
   <<"f", "ccn">>, <<"f", "dyni">>, <<"f", "dynl">>, <<"f", "hrlw">>, <<"f", "hrsw">>,
   <<"f", "icrit", "aer">>, <<"f", "lcrit", "aer">>, <<"f", "lsm">>, <<"f", "lu">>,
   <<"f", "lude">>, <<"f", "mfd">>, <<"f", "mfu">>, <<"f", "nice">>, <<"f", "qi">>,
   <<"f", "ql">>, <<"f", "qr">>, <<"f", "qs">>, <<"f", "qv">>, <<"f", "re", "ice">>,
   <<"f", "snde">>, <<"f", "supsat">>, <<"f", "t">>, <<"f", "tnd", "tmp", "a">>,
   <<"f", "tnd", "tmp", "qi">>, <<"f", "tnd", "tmp", "ql">>, <<"f", "tnd", "tmp", "qr">>,
   <<"f", "tnd", "tmp", "qs">>, <<"f", "tnd", "tmp", "qv">>, <<"f", "tnd", "tmp", "t">>,
   <<"f", "vfa">>, <<"f", "vfi">>, <<"f", "vfl">>, <<"f", "w">>,
   <<"i", "convection", "type">>}

\* A provider that places every float field on the full levels.
StatePlacementFull(n) ==
  IF n = <<"b", "convection", "on">> THEN <<"IJ", "bool">>
  ELSE IF n = <<"i", "convection", "type">> THEN <<"IJ", "int">>
  ELSE <<"IJK", "float">>

\* Placement and element type a state provider gives field n: allocate_b_ij,
\* allocate_i_ij, allocate_f_ij, allocate_f_h and allocate_f of allocate_state,
\* which are IJ_ARGS(bool), IJ_ARGS(int), IJ_ARGS, IJK_ARGS(dim_k=K - 1/2) and
\* IJK_ARGS / IJKD5_ARGS of setup.get_state.
StatePlacement(n) ==
  IF n = <<"b", "convection", "on">> THEN <<"IJ", "bool">>
  ELSE IF n = <<"i", "convection", "type">> THEN <<"IJ", "int">>
  ELSE IF n = <<"f", "lsm">> THEN <<"IJ", "float">>
  ELSE IF n = <<"f", "aph">> THEN <<"IJKh", "float">>
  ELSE <<"IJK", "float">>

\* The fields initialize_state calls initialize_field on: the keys of
\* hdf5_reader_keys, the four of PCLV and the four of TENDENCY_TMP_CLD.
InitializedStateNames ==
  {<<"b", "convection", "on">>, <<"f", "a">>, <<"f", "ap">>, <<"f", "aph">>,
   <<"f", "ccn">>, <<"f", "dyni">>, <<"f", "dynl">>, <<"f", "hrlw">>, <<"f", "hrsw">>,
   <<"f", "icrit", "aer">>, <<"f", "lcrit", "aer">>, <<"f", "lsm">>, <<"f", "lu">>,
   <<"f", "lude">>, <<"f", "mfd">>, <<"f", "mfu">>, <<"f", "nice">>, <<"f", "qv">>,
   <<"f", "re", "ice">>, <<"f", "snde">>, <<"f", "supsat">>, <<"f", "t">>,
   <<"f", "tnd", "tmp", "a">>, <<"f", "tnd", "tmp", "qv">>, <<"f", "tnd", "tmp", "t">>,
   <<"f", "vfa">>, <<"f", "vfi">>, <<"f", "vfl">>, <<"f", "w">>,
   <<"i", "convection", "type">>}
  \cup {<<"f", "ql">>, <<"f", "qi">>, <<"f", "qr">>, <<"f", "qs">>}
  \cup {<<"f", "tnd", "tmp", "ql">>, <<"f", "tnd", "tmp", "qi">>,
        <<"f", "tnd", "tmp", "qr">>, <<"f", "tnd", "tmp", "qs">>}

\* get_state of provider pr ("initialization": allocate_state, then
\* initialize_state; "setup": get_field on every entry): per field its
\* placement, element type and whether it holds the input file's values.
GetState(pr) ==
  [n \in StateNames |->
     [dims |-> StatePlacement(n)[1], dtype |-> StatePlacement(n)[2],
      filled |-> pr = "setup" \/ n \in InitializedStateNames]]

\* get_reference_tendencies: allocate_tendencies / initialize_tendencies, or
\* the field_properties of setup.get_reference_tendencies.
GetReferenceTendencies(pr) ==
  [n \in {<<"f", "a">>, <<"f", "qi">>, <<"f", "ql">>, <<"f", "qr">>, <<"f", "qs">>,
          <<"f", "qv">>, <<"f", "t">>} |->
     [dims |-> "IJK", dtype |-> "float",
      filled |-> pr = "setup"
                 \/ n \in {<<"f", "a">>, <<"f", "qv">>, <<"f", "t">>, <<"f", "ql">>,
                           <<"f", "qi">>, <<"f", "qr">>, <<"f", "qs">>}]]

\* get_reference_diagnostics: zeros_ijk, zeros_ijk_h and zeros_ij of
\* allocate_diagnostics with initialize_diagnostics on every field, or the
\* field_properties of setup.get_reference_diagnostics.
GetReferenceDiagnostics(pr) ==
  [n \in {<<"f", "covptot">>, <<"f", "fcqlng">>, <<"f", "fcqnng">>, <<"f", "fcqrng">>,
          <<"f", "fcqsng">>, <<"f", "fhpsl">>, <<"f", "fhpsn">>, <<"f", "fplsl">>,
          <<"f", "fplsn">>, <<"f", "fsqif">>, <<"f", "fsqitur">>, <<"f", "fsqlf">>,
          <<"f", "fsqltur">>, <<"f", "fsqrf">>, <<"f", "fsqsf">>,
          <<"f", "rainfrac", "toprfz">>} |->
     [dims |-> IF n = <<"f", "covptot">> THEN "IJK"
               ELSE IF n = <<"f", "rainfrac", "toprfz">> THEN "IJ" ELSE "IJKh",
      dtype |-> "float", filled |-> TRUE]]

\* ------------------------------------------------------------------ driver

\* The value click gives --enable-checks/--disable-checks when neither is on
\* the command line.
EnableChecksDefault == FALSE

\* main: the Config it builds from the command line.
MainConfig(cli) ==
  [sympl_enable_checks |-> IF cli.checks = "absent" THEN EnableChecksDefault
                           ELSE cli.checks = "--enable-checks",
   enable_validation |-> cli.validation,
   num_cols |-> cli.num_cols,
   variant |-> cli.variant]

DriverMain ==
  /\ drv.pc = "main"
  /\ drv' = [drv EXCEPT !.pc = "core", !.config = MainConfig(drv.cli)]
  /\ UNCHANGED <<params, grid, engine, compiled, mem, pool, call, lib>>

\* A column count that falls back to the file's whenever it is not positive.
ColumnCountPositive(num_cols, nlon) == IF num_cols > 0 THEN num_cols ELSE nlon

\* config.num_cols or hdf5_reader.get_nlon()
ColumnCount(num_cols, nlon) == IF num_cols # 0 THEN num_cols ELSE nlon

\* Whether a grid of nx columns and nz levels cannot be built.
GridError(nx, nz) == nx <= 0 \/ nz <= 0

\* core up to get_state: the grid from the column count and the input file.
DriverGrid ==
  /\ drv.pc = "core"
  /\ LET nx == ColumnCount(drv.config.num_cols, drv.file.nlon)
         nz == drv.file.nlev
     IN drv' = [drv EXCEPT !.pc = IF GridError(nx, nz) THEN "failed" ELSE "grid",
                           !.nx = nx, !.nz = nz]
  /\ UNCHANGED <<params, grid, engine, compiled, mem, pool, call, lib>>

\* core: get_state and the keyword arguments of the constructor.
DriverGetState ==
  /\ drv.pc = "grid"
  /\ drv' = [drv EXCEPT !.pc = "state", !.state = GetState(drv.provider),
                        !.ctor = [enable_checks |-> drv.config.sympl_enable_checks]]
  /\ UNCHANGED <<params, grid, engine, compiled, mem, pool, call, lib>>

\* core: cloudsc_cls(...)
DriverConstruct ==
  /\ drv.pc = "state"
  /\ Construct(drv.config.variant)

\* core: cloudsc(state, dt), the first time and in the loop over num_runs.
DriverCall ==
  /\ drv.pc = "state"
  /\ \E ts \in Timesteps : Enter(1, drv.config.variant, ts)

\* core: the reference bundles, when validation is enabled and the calls are
\* over.
DriverValidate ==
  /\ drv.pc = "state"
  /\ drv.config.enable_validation
  /\ call[1].pc = "idle" /\ call[1].n >= 1
  /\ drv' = [drv EXCEPT !.pc = "validated",
                        !.tends_ref = GetReferenceTendencies(drv.provider),
                        !.diags_ref = GetReferenceDiagnostics(drv.provider)]
  /\ UNCHANGED <<params, grid, engine, compiled, mem, pool, call, lib>>

\* ------------------------------------------------------------------ specifications

\* The parameter groups of a run: the regular contents of the input file.
RunParams ==
  {p \in ParamChoices :
     /\ LiteralError(p) = ""
     /\ \A g \in Range(GroupOrder) : Cardinality(DOMAIN p[g]) = 3}

InitMem(s, nz) ==
  [b \in Bufs |->
     IF b \in StateBufs THEN InitField(s, b, nz)
     ELSE IF b \in ClassBufs("Kh_int") THEN Zeros("Kh_int", nz)
     ELSE 0]

\* The run before (built = FALSE) or after the two components are constructed.
InitWith(P, built) ==
  /\ params \in P
  /\ grid \in [nx : {Nx}, nz : 1..MaxNz, seed : 1..NumSeeds]
  /\ engine = [e \in Variants |->
                 IF built THEN Constructed(e, params, grid.nz) ELSE NoEngine]
  /\ compiled = [e \in Variants |-> IF built THEN StencilsOf(e) ELSE <<>>]
  /\ mem = InitMem(grid.seed, grid.nz)
  /\ pool = [cls \in Classes |-> ClassBufs(cls)]
  /\ call = [c \in Callers |-> Idle]

\* No function of the library is being evaluated on its own.
NoLib == [fn |-> "none", pc |-> "none"]

\* The driver is not modelled: the components are constructed and called
\* directly.
NoDriver == [pc |-> "none"]

\* The calls of a run on the constructed components.
Init == InitWith(RunParams, TRUE) /\ lib = NoLib /\ drv = NoDriver

Next ==
  \/ \E c \in Callers, e \in Variants, ts \in Timesteps : Enter(c, e, ts)
  \/ \E c \in Callers : RunFused(c)
  \/ \E c \in Callers : RunTendencies(c)
  \/ \E c \in Callers : RunFluxes(c)
  \/ \E c \in Callers : StageRaises(c)

Spec == Init /\ [][Next]_vars

\* Construction alone, on every content the input file may have.
InitCtor == InitWith(ParamChoices, FALSE) /\ lib = NoLib /\ drv = NoDriver

NextCtor == \E e \in Variants : Construct(e)

SpecCtor == InitCtor /\ [][NextCtor]_vars

\* ------------------------------------------------------------------ library inputs

\* Length of the fields the pointwise functions are called on.
FieldLen == 3

Fields(T) == [1..FieldLen -> T]

\* Triple points and temperatures f_foedelta is called with.
DeltaExternals == [RTT : {Fix(27315, 100), Fix(270, 1)}]
DeltaTemps == {Fix(260, 1), Fix(270, 1), Fix(27315, 100), Fix(27316, 100), Fix(280, 1)}

\* Limits, scalings and temperatures f_foealfa is called with.
AlfaExternals ==
  [RTICE : {Fix(1, 1), Fix(3, 1)}, RTWAT : {Fix(1, 1), Fix(3, 1)},
   RTWAT_RTICE_R : {Fix(-1, 1), Fix(0, 1), Fix(1, 2), Fix(1, 3), Fix(2, 1)}]
AlfaTemps == {Fix(0, 1), Fix(1, 1), Fix(3, 2), Fix(2, 1), Fix(3, 1), Fix(4, 1)}

\* Externals, pressures and temperatures f_cuadjtq is called with.
CuadjtqExternals ==
  [RTT : {Fix(2, 1)}, RTICE : {Fix(1, 1)}, RTWAT : {Fix(3, 1)},
   RTWAT_RTICE_R : {Fix(1, 2)}, R2ES : {Fix(1, 1)},
   R3LES : {Fix(0, 1), Fix(1, 1)}, R3IES : {Fix(0, 1), Fix(1, 1)},
   R4LES : {Fix(-1, 1)}, R4IES : {Fix(-2, 1)},
   R5ALVCP : {Fix(1, 1)}, R5ALSCP : {Fix(2, 1)},
   RALVDCP : {Fix(2, 1)}, RALSDCP : {Fix(3, 1)}, RETV : {Fix(0, 1), Fix(1, 2)}]
Pressures == {Fix(1, 1), Fix(4, 1)}
CuadjtqTemps == {Fix(1, 1), Fix(2, 1), Fix(3, 1)}

\* The two humidities "at saturation" for pressure ap and temperature t: the
\* saturation value f_cuadjtq_5 starts from, and the one it compares qsmix with.
Saturation(ext, ap, t) == Times(Foeewm(ext, t), Over(Fix(1, 1), ap))
SaturationCorrected(ext, ap, t) ==
  LET qsat0 == MinOf(Saturation(ext, ap, t), Fix(1, 2))
  IN Times(qsat0, Over(Fix(1, 1), Fix(1, 1) - Times(ext.RETV, qsat0)))

Humidities(ext, ap, t) ==
  {Fix(0, 1), Fix(1, 4), Saturation(ext, ap, t), SaturationCorrected(ext, ap, t)}

\* The shape of a field of rank r with ni columns and nk levels, and of the
\* buffer read for it with mi columns and mk levels.
FieldShape(r, ni, nk) ==
  IF r = 1 THEN <<ni>> ELSE IF r = 2 THEN <<ni, 1>>
  ELSE IF r = 3 THEN <<ni, 1, nk>> ELSE <<ni, 1, nk, 1>>
BufferShape(r, mi, mk) == IF r = 3 THEN <<mi, mk>> ELSE <<mi>>

\* Storage as allocated, and a buffer whose elements differ from one another
\* and from the storage's.
Allocated(shape) == [x \in Indices(shape) |-> 0]
BufferOf(shape) ==
  [x \in Indices(shape) |-> 10 * (x[1] + 1) + (IF Len(shape) = 2 THEN x[2] + 1 ELSE 0)]

\* The calls of initialize_field.
FieldCalls ==
  {[fn |-> "initialize_field", pc |-> "called", at |-> 0, ext |-> EmptyDict,
    args |-> [shape |-> FieldShape(r, ni, nk), storage |-> Allocated(FieldShape(r, ni, nk)),
              bshape |-> BufferShape(r, mi, mk),
              buffer |-> BufferOf(BufferShape(r, mi, mk))],
    env |-> [storage |-> Allocated(FieldShape(r, ni, nk))], calls |-> <<>>, out |-> <<>>] :
     r \in 1..4, ni \in 1..MaxCols, nk \in 1..MaxLevs, mi \in 1..MaxCols, mk \in 1..MaxLevs}

\* Externals with the constants of the saturation formulas positive and their
\* poles below the ice threshold, as the constants of the IFS are; the
\* temperatures at the poles, and humidities there.
PoleExternals ==
  {ext \in CuadjtqExternals : ext.R3LES > 0 /\ ext.R3IES > 0}
PoleTemps == {Fix(-2, 1), Fix(-1, 1)}
PoleHumidities == {Fix(1, 4), Fix(1, 2)}

\* What min and max of not-a-number give in the build.
NaNChoices == {"propagated", "first", "other"}

\* The calls at and about the poles.
PoleCalls ==
  {[fn |-> fn, pc |-> "called", at |-> 0, ext |-> ext, args |-> f, nan |-> n,
    env |-> EmptyDict, calls |-> <<>>, out |-> <<>>] :
     fn \in {"f_foeeliq", "f_foeeice"}, ext \in PoleExternals,
     f \in Fields(PoleTemps \cup {Fix(1, 1)}), n \in NaNChoices}
  \cup
  {[fn |-> "f_cuadjtq", pc |-> "called", at |-> 1, ext |-> ext, nan |-> n,
    args |-> <<ap, q, t>>, env |-> [ap |-> ap, qsmix |-> q, t |-> t],
    calls |-> <<>>, out |-> <<>>] :
     ext \in PoleExternals, ap \in Pressures, q \in PoleHumidities, t \in PoleTemps,
     n \in NaNChoices}

\* Timesteps in whole seconds, up to the first that single precision cannot
\* represent and a few past it; the precisions of the configuration.
DtSeconds == {1, 3600, 16777216, 16777217, 16777218, 16777219}
Precisions == {"double", "single"}

DtCalls ==
  {[fn |-> "array_call.dt", pc |-> "called", at |-> 0, ext |-> [precision |-> pr],
    args |-> <<ts>>, env |-> EmptyDict, calls |-> <<>>, out |-> <<>>] :
     ts \in DtSeconds, pr \in Precisions}

\* The calls of the library functions.
LibCalls ==
  {[fn |-> fn, pc |-> "called", at |-> 0, ext |-> ext, args |-> f,
    env |-> EmptyDict, calls |-> <<>>, out |-> <<>>] :
     fn \in {"f_foedelta"}, ext \in DeltaExternals, f \in Fields(DeltaTemps)}
  \cup
  {[fn |-> fn, pc |-> "called", at |-> 0, ext |-> ext, args |-> f,
    env |-> EmptyDict, calls |-> <<>>, out |-> <<>>] :
     fn \in {"f_foealfa"}, ext \in AlfaExternals, f \in Fields(AlfaTemps)}
  \cup
  UNION {UNION {UNION {
    {[fn |-> "f_cuadjtq", pc |-> "called", at |-> 1, ext |-> ext,
      args |-> <<ap, q, t>>, env |-> [ap |-> ap, qsmix |-> q, t |-> t],
      calls |-> <<>>, out |-> <<>>] : q \in Humidities(ext, ap, t)} :
    t \in CuadjtqTemps} : ap \in Pressures} : ext \in CuadjtqExternals}
  \cup FieldCalls
  \cup PoleCalls
  \cup DtCalls

\* The library functions called on their own, with the components constructed.
InitLib ==
  /\ InitWith(RunParams, TRUE)
  /\ grid.nz = 1
  /\ lib \in LibCalls
  /\ drv = NoDriver

NextLib ==
  \/ EvalOnField
  \/ CuadjtqStep
  \/ InitializeField
  \/ EvalDt

SpecLib == InitLib /\ [][NextLib]_vars

\* The command lines and input files of a run of the driver on a grid of
\* grid.nx columns and grid.nz levels, or on none.
DriverRuns ==
  [pc : {"main"},
   cli : [checks : {"absent", "--enable-checks", "--disable-checks"},
          validation : BOOLEAN, num_cols : {-1, 0, grid.nx}, variant : Variants],
   file : [nlon : {0, grid.nx}, nlev : {0, grid.nz}],
   provider : {"initialization", "setup"},
   config : {EmptyDict}, nx : {0}, nz : {0}, state : {EmptyDict}, ctor : {EmptyDict},
   tends_ref : {EmptyDict}, diags_ref : {EmptyDict}]

\* A run of the driver.
InitDriver ==
  /\ InitWith(RunParams, FALSE)
  /\ lib = NoLib
  /\ drv \in DriverRuns

NextDriver ==
  \/ DriverMain
  \/ DriverGrid
  \/ DriverGetState
  \/ DriverConstruct
  \/ DriverCall
  \/ RunFused(1)
  \/ RunTendencies(1)
  \/ RunFluxes(1)
  \/ StageRaises(1)
  \/ DriverValidate

SpecDriver == InitDriver /\ [][NextDriver]_vars

\* ------------------------------------------------------------------ properties

\* Caller c is outside array_call and its last call returned.
Returned(c) == call[c].pc = "idle" /\ call[c].n >= 1

Active(c) == call[c].pc # "idle"

\* The stencils of the stage calls of c's current or last call, in order.
StagesOf(c) == [i \in DOMAIN call[c].log |-> call[c].log[i].stencil]

\* The fields caller c's buffers hold.
TendenciesOf(c) == [i \in 1..NumTendencies |-> mem[TendencyBuf(c, i)]]
DiagnosticsOf(c) == [i \in 1..NumDiagnostics |-> mem[DiagnosticBuf(c, i)]]

\* The argument names of the 7 tendencies, the 16 diagnostics and the 18
\* intermediates.
TendencyFields == {"a", "t", "qv", "ql", "qi", "qr", "qs"}
DiagnosticFields ==
  { <<"covptot">>, <<"fcqlng">>, <<"fcqnng">>, <<"fcqrng">>, <<"fcqsng">>,
    <<"fhpsl">>, <<"fhpsn">>, <<"fplsl">>, <<"fplsn">>, <<"fsqif">>,
    <<"fsqitur">>, <<"fsqlf">>, <<"fsqltur">>, <<"fsqrf">>, <<"fsqsf">>,
    <<"rainfrac", "toprfz">> }
Intermediates ==
  { <<"foealfa">>, <<"lneg", "qi">>, <<"lneg", "ql">>, <<"lneg", "qr">>,
    <<"lneg", "qs">>, <<"lude">>, <<"pfplsi">>, <<"pfplsl">>, <<"pfplsr">>,
    <<"pfplss">>, <<"qi0">>, <<"qin">>, <<"ql0">>, <<"qln">>, <<"qr0">>,
    <<"qrn">>, <<"qs0">>, <<"qsn">> }

TendencyOutArgs == {<<"out", "tnd", "loc", f>> : f \in TendencyFields}
DiagnosticOutArgs == {<<"out">> \o f : f \in DiagnosticFields}
IntermediateOutArgs == {<<"out">> \o f : f \in Intermediates}
IntermediateInArgs == {<<"in">> \o f : f \in Intermediates}

SplitStagesInOrder ==
  \A c \in Callers :
     call[c].engine = "split" =>
       /\ call[c].pc = "entered" => StagesOf(c) = <<>>
       /\ call[c].pc = "between" => StagesOf(c) = <<"cloudsc_tendencies">>
       /\ Returned(c) => StagesOf(c) = <<"cloudsc_tendencies", "cloudsc_fluxes">>
       /\ StagesOf(c) \in {<<>>, <<"cloudsc_tendencies">>,
                           <<"cloudsc_tendencies", "cloudsc_fluxes">>}
       /\ Len(call[c].log) = 2 =>
            \A f \in Intermediates :
               call[c].log[2].args[<<"in">> \o f] = call[c].log[1].args[<<"out">> \o f]

\* A split call returned after both stages, the intermediates in temporaries.
SplitCallRanBothStages ==
  \E c \in Callers :
     /\ Returned(c) /\ call[c].engine = "split"
     /\ Len(call[c].log) = 2
     /\ \A f \in Intermediates : call[c].log[2].args[<<"in">> \o f] \in TmpBufs

\* C3: cloudsc_tendencies gets the 7 tendency outputs, of the 16 diagnostics
\* exactly out_covptot and out_rainfrac_toprfz, the 18 intermediates as
\* outputs, and neither in_vfi nor in_vfl; cloudsc_fluxes gets as inputs
\* exactly the 18 intermediates, in_vfi, in_vfl and in_aph and as outputs
\* exactly the other 14 diagnostics; so each diagnostic is an output of exactly
\* one stage.
SplitStageArguments ==
  \A c \in Callers : \A i \in DOMAIN call[c].log :
     LET inv == call[c].log[i]
         A == DOMAIN inv.args
     IN /\ inv.stencil = "cloudsc_tendencies" =>
             /\ TendencyOutArgs \subseteq A
             /\ A \cap DiagnosticOutArgs = {OutCovptot, OutRainfrac}
             /\ IntermediateOutArgs \subseteq A
             /\ InVfi \notin A /\ InVfl \notin A
        /\ inv.stencil = "cloudsc_fluxes" =>
             /\ {a \in A : a[1] = "in"} = IntermediateInArgs \cup {InVfi, InVfl, InAph}
             /\ {a \in A : a[1] = "out"} = DiagnosticOutArgs \ {OutCovptot, OutRainfrac}
             /\ Cardinality({a \in A : a[1] = "out"}) = 14
             /\ {a \in A : a[1] \notin {"in", "out"}} = {}
             /\ \A a \in DiagnosticOutArgs :
                  (a \in A) # (a \in DOMAIN call[c].log[1].args)

\* Both stages of a split call got their arguments.
SplitStagesGotArguments ==
  \E c \in Callers :
     /\ Len(call[c].log) = 2
     /\ call[c].log[1].stencil = "cloudsc_tendencies"
     /\ call[c].log[2].stencil = "cloudsc_fluxes"
     /\ InVfi \in DOMAIN call[c].log[2].args
     /\ OutCovptot \in DOMAIN call[c].log[1].args

\* C4: the fields of the state bundle are as they were allocated; a stage call
\* writes only output buffers of its caller and temporaries of its call, and
\* gets buffers of the state bundle only as in_* arguments.
StateNeverWritten ==
  /\ \A i \in 1..NumState : mem[StateBuf(i)] = InitField(grid.seed, i, grid.nz)
  /\ \A c \in Callers : \A i \in DOMAIN call[c].log :
        LET inv == call[c].log[i]
        IN /\ inv.wrote \subseteq OutBufs(c) \cup inv.held
           /\ inv.wrote \cap StateBufs = {}
           /\ \A a \in DOMAIN inv.args : inv.args[a] \in StateBufs => a[1] = "in"
  /\ \A c \in Callers : Active(c) => call[c].written \subseteq OutBufs(c) \cup Range(call[c].tmp)

\* A fused and a split call have written their outputs.
CallsWroteOutputs ==
  \E c1, c2 \in Callers :
     /\ call[c1].engine = "fused" /\ Len(call[c1].log) = 1
     /\ call[c2].engine = "split" /\ Len(call[c2].log) = 2
     /\ call[c1].log[1].wrote \cap OutBufs(c1) # {}
     /\ call[c2].log[2].wrote \cap OutBufs(c2) # {}

\* The temporaries calls hold.
Held == UNION {Range(call[c].tmp) : c \in Callers}

\* C5: a call inside array_call holds 8 temporaries (fused) or 8 + 18 (split)
\* and a caller outside holds none; the temporaries no call holds are all
\* available again, whatever way the calls left; and no stage read a temporary
\* that its own call had not written.
TemporariesScopedToCall ==
  /\ \A c \in Callers :
        /\ Range(call[c].tmp) \subseteq TmpBufs
        /\ Cardinality(DOMAIN call[c].tmp) = Cardinality(Range(call[c].tmp))
        /\ Cardinality(Range(call[c].tmp)) =
             IF ~Active(c) THEN 0 ELSE IF call[c].engine = "fused" THEN 8 ELSE 8 + 18
  /\ \A cls \in Classes : pool[cls] = ClassBufs(cls) \ Held
  /\ \A c \in Callers : \A i \in DOMAIN call[c].log : call[c].log[i].stale = {}

\* A split call left on an error of its flux stage, its intermediates written,
\* and a later call of the other caller has run on reused storages.
TemporariesReleasedOnError ==
  \E c, d \in Callers :
     /\ call[c].pc = "idle" /\ call[c].engine = "split" /\ call[c].n = 0
     /\ StagesOf(c) = <<"cloudsc_tendencies">>
     /\ \E f \in Intermediates : mem[call[c].log[1].args[<<"out">> \o f]] # 0
     /\ c # d /\ Returned(d)
     /\ call[d].log[1].held \cap call[c].log[1].held # {}
     /\ \A cls \in Classes : pool[cls] = ClassBufs(cls)

\* C6: two calls inside array_call at the same time hold disjoint temporaries,
\* and no stage call of one got or wrote a temporary of the other.
InterleavedCallsDisjoint ==
  \A c1, c2 \in Callers :
     (c1 # c2 /\ Active(c1) /\ Active(c2)) =>
        /\ Range(call[c1].tmp) \cap Range(call[c2].tmp) = {}
        /\ \A i \in DOMAIN call[c1].log :
              /\ Range(call[c1].log[i].args) \cap Range(call[c2].tmp) = {}
              /\ call[c1].log[i].wrote \cap Range(call[c2].tmp) = {}

\* Two calls on the same instance are inside array_call, one between its
\* stages.
TwoCallsInterleaved ==
  \E c1, c2 \in Callers :
     /\ c1 # c2 /\ Active(c1) /\ Active(c2)
     /\ call[c1].engine = call[c2].engine
     /\ call[c1].pc = "between"

\* What a call with timestep ts leaves in its outputs, as a function of the
\* state bundle, the timestep and the constant table alone: the writes of the
\* fused stage on a memory that holds the state bundle and the level indices.
ExpectedWrites(ts) ==
  LET refargs == InputsDict @@ (TmpKlevel :> NumState + 1)
      refmem == [b \in 1..(NumState + 1) |->
                   IF b <= NumState THEN InitField(grid.seed, b, grid.nz)
                   ELSE Arange(grid.nz + 1)]
  IN StageWrites("cloudsc", refargs, refmem, TotalSeconds(ts), Externals(params, grid.nz))

Expected(ts) ==
  LET ws == ExpectedWrites(ts)
  IN Eager([a \in {ws[i][1] : i \in DOMAIN ws} |->
              ws[CHOOSE i \in DOMAIN ws : ws[i][1] = a][2]])

\* C7: whenever a call has returned, however many calls went before it and
\* whatever the buffers held, every tendency and diagnostic field holds the
\* value determined by state, timestep and constant table.
RepeatedCallsIdempotent ==
  \A c \in Callers :
     Returned(c) =>
       LET x == Expected(call[c].ts)
       IN /\ \A i \in 1..NumTendencies :
               mem[TendencyBuf(c, i)] = x[<<"out", "tnd", "loc">> \o Tail(TendencyNames[i])]
          /\ \A i \in 1..NumDiagnostics :
               mem[DiagnosticBuf(c, i)] = x[<<"out">> \o Tail(DiagnosticNames[i])]

\* A caller's second call in a row has returned into the buffers of its first.
SecondCallReturned ==
  \E c \in Callers : Returned(c) /\ call[c].n >= 2

\* The parameter groups that have key k, in merge order.
GroupsWith(k) == SelectSeq(GroupOrder, LAMBDA g : k \in DOMAIN params[g])

\* C8: in the table of a constructed component a key of the literals has the
\* literal's value, whatever the parameter groups say; any other key has the
\* value of the last of yoecldp, yoethf, yomcst, yrecldp that has it.
LaterSourceWins ==
  \A e \in Variants :
     engine[e].status = "built" =>
       \A st \in DOMAIN engine[e].stencils :
          LET t == engine[e].stencils[st]
              lit == Literals(params, grid.nz)
          IN /\ DOMAIN t = DOMAIN lit \cup UNION {DOMAIN params[g] : g \in Range(GroupOrder)}
             /\ \A k \in DOMAIN t :
                  t[k] = IF k \in DOMAIN lit THEN lit[k]
                         ELSE params[GroupsWith(k)[Len(GroupsWith(k))]][k]

\* A component is constructed from groups one of which names a literal with
\* another value, and two of which name the same key with different values.
CollidingKeysMerged ==
  \E e \in Variants :
     /\ engine[e].status = "built"
     /\ \E g \in Range(GroupOrder) : \E k \in DOMAIN params[g] :
           /\ k \in DOMAIN Literals(params, grid.nz)
           /\ params[g][k] # Literals(params, grid.nz)[k]
     /\ \E g, h \in Range(GroupOrder) : \E k \in DOMAIN params[g] \cap DOMAIN params[h] :
           /\ params[g][k] # params[h][k]
           /\ k \notin DOMAIN Literals(params, grid.nz)

\* The keys the literal formulas read, by group.
SourceKeys ==
  [yoecldp |-> {"NCLDQI", "NCLDQR", "NCLDQS"}, yoethf |-> {"RALSDCP", "RALVDCP"},
   yomcst |-> {"RD", "RCPD"}, yrecldp |-> {"RVICE", "RVRAIN", "RVSNOW"}]

MissingSourceKey == \E g \in DOMAIN SourceKeys : ~(SourceKeys[g] \subseteq DOMAIN params[g])

\* C9: when a parameter group lacks a key a literal formula reads, a
\* construction that was attempted raised: no stencil is compiled and there is
\* no instance.
MissingKeyFailsConstruction ==
  \A e \in Variants :
     (MissingSourceKey /\ engine[e].status # "absent") =>
        /\ engine[e].status = "raised"
        /\ compiled[e] = <<>>
        /\ engine[e].stencils = EmptyDict

\* Both constructions were attempted with a key missing.
ConstructionRaised ==
  /\ MissingSourceKey
  /\ \A e \in Variants : engine[e].status = "raised"

\* C10: the instances are as construction left them, and every stage call ran
\* with the table built at construction.
ConstantTableFixed ==
  /\ \A e \in Variants : engine[e] = Constructed(e, params, grid.nz)
  /\ \A c \in Callers : \A i \in DOMAIN call[c].log :
        call[c].log[i].externals = Externals(params, grid.nz)

\* Both callers have called the same instance, one of them repeatedly.
InstanceCalledRepeatedly ==
  \E c1, c2 \in Callers :
     /\ c1 # c2 /\ Returned(c1) /\ Returned(c2)
     /\ call[c1].engine = call[c2].engine
     /\ call[c1].n >= 2

\* The table's derived entries computed from the table's own entries.
DerivedFromTable(t) ==
  /\ t.RDCP = TrueDiv(t.RD, t.RCPD)
  /\ t.RLDCP = TrueDiv(IntVal(1), Minus(t.RALSDCP, t.RALVDCP))
  /\ t.VQI = t.RVICE /\ t.VQR = t.RVRAIN /\ t.VQS = t.RVSNOW

\* A group merged after g also has one of g's keys the literal formulas read.
Redefined(g) ==
  \E i, j \in DOMAIN GroupOrder :
     /\ GroupOrder[i] = g /\ i < j
     /\ SourceKeys[g] \cap DOMAIN params[GroupOrder[j]] # {}

\* C11 as stated: in every constructed table the derived entries RDCP, RLDCP,
\* VQI, VQR, VQS equal the values computed from the table's own RD, RCPD,
\* RALSDCP, RALVDCP, RVICE, RVRAIN, RVSNOW, whatever keys the groups share.
DerivedConsistentWithTable ==
  \A e \in Variants :
     engine[e].status = "built" =>
       \A st \in DOMAIN engine[e].stencils : DerivedFromTable(engine[e].stencils[st])

\* C11 amended: in every constructed table the derived entries equal the
\* values computed from the attributes of the group each formula reads (RD and
\* RCPD of yomcst, RALSDCP and RALVDCP of yoethf, RVICE, RVRAIN, RVSNOW of
\* yrecldp); they equal the values computed from the table's own entries when
\* no group merged later has one of those keys.
DerivedFromSourceGroups ==
  \A e \in Variants :
     engine[e].status = "built" =>
       \A st \in DOMAIN engine[e].stencils :
          LET t == engine[e].stencils[st]
          IN /\ t.RDCP = TrueDiv(params.yomcst.RD, params.yomcst.RCPD)
             /\ t.RLDCP = TrueDiv(IntVal(1), Minus(params.yoethf.RALSDCP,
                                                   params.yoethf.RALVDCP))
             /\ t.VQI = params.yrecldp.RVICE
             /\ t.VQR = params.yrecldp.RVRAIN
             /\ t.VQS = params.yrecldp.RVSNOW
             /\ (\A g \in DOMAIN SourceKeys : ~Redefined(g)) => DerivedFromTable(t)

\* Both components are constructed from groups where a key a formula reads is
\* also a key of an earlier group, and none is a key of a later group.
DerivedEntriesBuilt ==
  /\ \A e \in Variants : engine[e].status = "built"
  /\ "RALVDCP" \in DOMAIN params.yoecldp
  /\ \A g \in DOMAIN SourceKeys : ~Redefined(g)

\* The evaluation of library function fn has returned.
LibDone(fn) == lib.fn = fn /\ lib.pc = "done"

\* C12: when f_cuadjtq(ap, qsmix, t) returns it has called f_cuadjtq_5 exactly
\* twice, first on (1 / ap, qsmix, t) and then on 1 / ap and the pair the first
\* call returned, and it returns what the second call returned, whatever the
\* input and whatever the correction of the first call.
CuadjtqTwoIterations ==
  LibDone("f_cuadjtq") =>
    LET qp == Over(Fix(1, 1), lib.args[1])
        first == Cuadjtq5(lib.ext, qp, lib.args[2], lib.args[3])
    IN /\ Len(lib.calls) = 2
       /\ \A i \in DOMAIN lib.calls : lib.calls[i].fn = "f_cuadjtq_5"
       /\ lib.calls[1].args = <<qp, lib.args[2], lib.args[3]>>
       /\ lib.calls[2].args = <<qp, first[1], first[2]>>
       /\ lib.out = Cuadjtq5(lib.ext, qp, first[1], first[2])

\* f_cuadjtq has returned for an input its first iteration left unchanged.
CuadjtqReturnedAtFixedPoint ==
  /\ LibDone("f_cuadjtq")
  /\ lib.calls[1].cond = 0
  /\ lib.args[2] # 0

\* a and b differ by at most a tenth of the larger.
Near(a, b) == 10 * Abs(a - b) <= MaxOf(Abs(a), Abs(b))

\* C13 as stated: for an input with qsmix = foeewm(t) * qp the correction of
\* the adjustment step is about 0 (at most a tenth of qsmix) and f_cuadjtq
\* returns qsmix and t about equal to its input.
SaturatedInputNearlyUnchanged ==
  (/\ LibDone("f_cuadjtq")
   /\ lib.args[2] = Saturation(lib.ext, lib.args[1], lib.args[3])) =>
     /\ 10 * Abs(lib.calls[1].cond) <= Abs(lib.args[2])
     /\ Near(lib.out[1], lib.args[2])
     /\ Near(lib.out[2], lib.args[3])

\* C13 amended: for an input at the saturation value the adjustment step
\* compares with, qsmix = qsat * cor with qsat = min(foeewm(t) * qp, 0.5) and
\* cor = 1 / (1 - RETV * qsat), the correction of both steps is 0 and
\* f_cuadjtq returns qsmix and t equal to its input.
SaturatedInputUnchanged ==
  (/\ LibDone("f_cuadjtq")
   /\ lib.args[2] = SaturationCorrected(lib.ext, lib.args[1], lib.args[3])) =>
     /\ \A i \in DOMAIN lib.calls : lib.calls[i].cond = 0
     /\ lib.out = <<lib.args[2], lib.args[3]>>

\* f_cuadjtq has returned for an input at the corrected saturation value, which
\* is not foeewm(t) * qp.
CuadjtqReturnedAtSaturation ==
  /\ LibDone("f_cuadjtq")
  /\ lib.args[2] = SaturationCorrected(lib.ext, lib.args[1], lib.args[3])
  /\ lib.args[2] # Saturation(lib.ext, lib.args[1], lib.args[3])

\* C14: every value of f_foealfa is in [0, 1]; over temperatures in
\* [RTICE, RTWAT] it does not decrease as the temperature increases; it is 0
\* at temperatures up to RTICE and takes one value at temperatures from RTWAT.
FoealfaBoundedMonotone ==
  LibDone("f_foealfa") =>
    LET t == lib.args
        within(i) == lib.ext.RTICE <= t[i] /\ t[i] <= lib.ext.RTWAT
    IN /\ \A i \in DOMAIN t : Fix(0, 1) <= lib.out[i] /\ lib.out[i] <= Fix(1, 1)
       /\ \A i, j \in DOMAIN t :
            (within(i) /\ within(j) /\ t[i] <= t[j]) => lib.out[i] <= lib.out[j]
       /\ \A i \in DOMAIN t : t[i] <= lib.ext.RTICE => lib.out[i] = Fix(0, 1)
       /\ \A i, j \in DOMAIN t :
            (t[i] >= lib.ext.RTWAT /\ t[j] >= lib.ext.RTWAT) => lib.out[i] = lib.out[j]

\* f_foealfa has returned on a field with two temperatures inside
\* [RTICE, RTWAT] where it increases, and one above RTWAT.
FoealfaIncreased ==
  /\ LibDone("f_foealfa")
  /\ \E i, j, k \in DOMAIN lib.args :
        /\ lib.ext.RTICE <= lib.args[i] /\ lib.args[i] < lib.args[j]
        /\ lib.args[j] <= lib.ext.RTWAT /\ lib.args[k] > lib.ext.RTWAT
        /\ Fix(0, 1) < lib.out[i] /\ lib.out[i] < lib.out[j]

\* C15: every value of f_foedelta is 0 or 1, and it is 1 exactly at the
\* temperatures above RTT; with RTT = 273.15 the field [260, 270, 280] gives
\* [0, 0, 1].
FoedeltaIsStep ==
  LibDone("f_foedelta") =>
    /\ \A i \in DOMAIN lib.args :
          /\ lib.out[i] \in {Fix(0, 1), Fix(1, 1)}
          /\ lib.out[i] = Fix(1, 1) <=> lib.args[i] > lib.ext.RTT
    /\ (/\ lib.ext.RTT = Fix(27315, 100)
        /\ lib.args = <<Fix(260, 1), Fix(270, 1), Fix(280, 1)>>) =>
          lib.out = <<Fix(0, 1), Fix(0, 1), Fix(1, 1)>>

\* f_foedelta has returned on [260, 270, 280] with RTT = 273.15.
FoedeltaOnExample ==
  /\ LibDone("f_foedelta")
  /\ lib.ext.RTT = Fix(27315, 100)
  /\ lib.args = <<Fix(260, 1), Fix(270, 1), Fix(280, 1)>>

\* The arguments of c's current or last call that name fields of the state
\* bundle.
StateArgs(c) ==
  UNION {{a \in DOMAIN call[c].log[i].args :
            a[1] = "in" /\ call[c].log[i].args[a] \in StateBufs} :
         i \in DOMAIN call[c].log}

\* C16 as stated: a call that returned was given 36 named fields of the state
\* bundle, the fields of the input schema.
CallReads36Fields ==
  \A c \in Callers :
     Returned(c) =>
       /\ Cardinality(StateArgs(c)) = 36
       /\ StateArgs(c) = {ArgName(<<"in">>, InputNames[i]) : i \in DOMAIN InputNames}

\* C16 amended: a call that returned was given 35 named fields of the state
\* bundle, the fields of the input schema, each bound to its own field of the
\* bundle, whichever component was called.
CallReads35Fields ==
  \A c \in Callers :
     Returned(c) =>
       /\ Cardinality(StateArgs(c)) = 35
       /\ StateArgs(c) = {ArgName(<<"in">>, InputNames[i]) : i \in DOMAIN InputNames}
       /\ \A i \in DOMAIN call[c].log : \A a \in DOMAIN call[c].log[i].args :
             (a[1] = "in" /\ call[c].log[i].args[a] \in StateBufs) =>
                call[c].log[i].args[a] =
                  StateBuf(CHOOSE k \in DOMAIN InputNames :
                             ArgName(<<"in">>, InputNames[k]) = a)

\* A call of each component has returned.
EachComponentReadBundle ==
  \A e \in Variants : \E c \in Callers : Returned(c) /\ call[c].engine = e

\* C19: initialize_field on a field of rank 2 or 3 returns after calling the
\* initializer of that rank; on a field of any other rank it raises ValueError
\* and the field's storage is as it was.
InitializeFieldChecksRank ==
  (lib.fn = "initialize_field" /\ lib.pc # "called") =>
     IF Len(lib.args.shape) \in {2, 3}
     THEN /\ lib.pc = "done"
          /\ lib.calls = <<IF Len(lib.args.shape) = 2 THEN "initialize_storage_2d"
                           ELSE "initialize_storage_3d">>
          /\ lib.env.storage # lib.args.storage
     ELSE /\ lib.pc = "raised"
          /\ lib.out = <<"ValueError">>
          /\ lib.calls = <<>>
          /\ lib.env.storage = lib.args.storage

\* initialize_field has raised on a field of rank 4.
InitializeFieldRaised ==
  /\ lib.fn = "initialize_field"
  /\ lib.pc = "raised"
  /\ Len(lib.args.shape) = 4


\* The driver has got the state from its provider.
StateProvided == drv.pc \in {"state", "validated"}

\* C17: every field of the input schema is in the state the provider returns,
\* holds the input file's values, and has the placement and the element type
\* of its schema entry, whichever provider is used; every field of the
\* tendency and diagnostic schemas is in the reference provider's bundle with
\* the schema entry's placement.
ProvidersPopulateSchema ==
  /\ StateProvided =>
       \A n \in Range(InputNames) :
          /\ n \in DOMAIN drv.state
          /\ drv.state[n].filled
          /\ <<drv.state[n].dims, drv.state[n].dtype>> = InputGridProperties[n]
  /\ drv.pc = "validated" =>
       /\ \A n \in Range(TendencyNames) :
             /\ n \in DOMAIN drv.tends_ref
             /\ drv.tends_ref[n].dims = TendencyGridProperties[n][1]
       /\ \A n \in Range(DiagnosticNames) :
             /\ n \in DOMAIN drv.diags_ref
             /\ drv.diags_ref[n].dims = DiagnosticGridProperties[n][1]

\* A run with the provider that reads the input file has called the component
\* and fetched the reference bundles.
ProvidersFetched ==
  /\ drv.pc = "validated"
  /\ drv.provider = "initialization"
  /\ call[1].log # <<>>

\* Nothing of the component exists and no stage has run.
NothingRan ==
  /\ \A e \in Variants : engine[e].status = "absent"
  /\ \A c \in Callers : call[c].log = <<>>

\* core is past the construction of the grid.
PastGrid == drv.pc \notin {"none", "main", "core"}

\* C18 as stated: with a column count of 0 or a negative column count, or a
\* non-positive level count in the input file, the construction of the grid
\* fails and no stage is executed.
NonPositiveDimensionFatal ==
  (drv.pc # "none" /\ (drv.cli.num_cols <= 0 \/ drv.file.nlev <= 0)) =>
     /\ NothingRan
     /\ PastGrid => drv.pc = "failed"

\* C18: with a negative column count, or a column count of 0 and a
\* non-positive column count in the input file, or a non-positive level count
\* in the input file, the construction of the grid fails and no stage is
\* executed.
NonPositiveGridFatal ==
  (drv.pc # "none"
   /\ \/ drv.cli.num_cols < 0
      \/ drv.cli.num_cols = 0 /\ drv.file.nlon <= 0
      \/ drv.file.nlev <= 0) =>
     /\ NothingRan
     /\ PastGrid => drv.pc = "failed"

\* A run with a negative column count has failed at the grid.
NegativeColumnsFailed ==
  /\ drv.pc = "failed"
  /\ drv.cli.num_cols < 0
  /\ drv.file.nlev > 0

\* C20: a run with neither --enable-checks nor --disable-checks constructs the
\* component with enable_checks true.
ChecksEnabledByDefault ==
  (StateProvided /\ drv.cli.checks = "absent") => drv.ctor.enable_checks


\* C21: every stage call had origin (0, 0, 0); cloudsc and cloudsc_fluxes ran
\* over (nx, 1, nz + 1) and cloudsc_tendencies over (nx, 1, nz).
StagesOverTheirExtent ==
  \A c \in Callers : \A i \in DOMAIN call[c].log :
     LET inv == call[c].log[i]
     IN /\ inv.origin = <<0, 0, 0>>
        /\ inv.stencil \in {"cloudsc", "cloudsc_fluxes"} =>
             inv.domain = <<grid.nx, 1, grid.nz + 1>>
        /\ inv.stencil = "cloudsc_tendencies" => inv.domain = <<grid.nx, 1, grid.nz>>

\* A fused call and a split call have returned, so each of the three stages
\* has been invoked.
EachStageInvoked ==
  \E c1, c2 \in Callers :
     /\ Returned(c1) /\ Returned(c2)
     /\ StagesOf(c1) = <<"cloudsc">>
     /\ StagesOf(c2) = <<"cloudsc_tendencies", "cloudsc_fluxes">>


\* Temperature t is at a pole of the saturation formulas.
AtPole(ext, t) == t = ext.R4LES \/ t = ext.R4IES

\* C22: at a pole temperature the divisions by zero are carried out: f_foedem
\* is not finite there, f_foeeliq and f_foeeice have returned the value of
\* R2ES * exp of the infinite quotient at their own pole, and f_cuadjtq has
\* returned, after two calls of f_cuadjtq_5 the first of which had a correction
\* that is not finite, a pair (qsmix, t) neither of which is finite; nothing
\* has raised or replaced the value, whatever min and max make of not-a-number.
PoleValuePropagates ==
  /\ (LibDone("f_cuadjtq") /\ AtPole(lib.ext, lib.args[3])) =>
       /\ ~Finite(Foedem(lib.ext, lib.args[3]))
       /\ Len(lib.calls) = 2
       /\ ~Finite(lib.calls[1].cond)
       /\ ~Finite(lib.out[1]) /\ ~Finite(lib.out[2])
  /\ LibDone("f_foeeliq") =>
       \A i \in DOMAIN lib.args :
          lib.args[i] = lib.ext.R4LES =>
            lib.out[i] = Times(lib.ext.R2ES,
                               Exp(Sign(Times(lib.ext.R3LES,
                                              Sub(lib.args[i], lib.ext.RTT))) * Inf))
  /\ LibDone("f_foeeice") =>
       \A i \in DOMAIN lib.args :
          lib.args[i] = lib.ext.R4IES =>
            lib.out[i] = Times(lib.ext.R2ES,
                               Exp(Sign(Times(lib.ext.R3IES,
                                              Sub(lib.args[i], lib.ext.RTT))) * Inf))
  /\ (lib.fn \in {"f_cuadjtq", "f_foeeliq", "f_foeeice"}) => lib.pc \in {"called", "done"}

\* f_cuadjtq has returned not-a-number for both qsmix and t on a temperature
\* at the pole R4LES.
CuadjtqReturnedNaN ==
  /\ LibDone("f_cuadjtq")
  /\ lib.args[3] = lib.ext.R4LES
  /\ IsNaN(lib.out[1]) /\ IsNaN(lib.out[2])


\* The argument names of the fields of the three schemas.
SchemaArgsOf ==
  Eager([c \in Callers |->
     [i \in 1..NumState |-> <<ArgName(<<"in">>, InputNames[i]), StateBuf(i)>>]
     \o [i \in 1..NumTendencies |->
           <<ArgName(<<"out", "tnd", "loc">>, TendencyNames[i]), TendencyBuf(c, i)>>]
     \o [i \in 1..NumDiagnostics |->
           <<ArgName(<<"out">>, DiagnosticNames[i]), DiagnosticBuf(c, i)>>]])

SchemaArgs(c) == SchemaArgsOf[c]

\* The argument name of the schema field held in a buffer.
SchemaNameOf ==
  Eager([c \in Callers |->
     Eager([b \in {SchemaArgsOf[c][i][2] : i \in DOMAIN SchemaArgsOf[c]} |->
              SchemaArgsOf[c][CHOOSE i \in DOMAIN SchemaArgsOf[c] :
                                SchemaArgsOf[c][i][2] = b][1]])])

\* C23: the argument names of the schema fields are pairwise distinct; the
\* dicts unpacked into a stage call share no argument name; and in a call that
\* returned every field of the schemas was bound in some stage call, in every
\* stage call under no other name than its own.
ArgumentNamesInjective ==
  \A c \in Callers :
     LET sa == SchemaArgs(c)
     IN /\ \A i, j \in DOMAIN sa : sa[i][1] = sa[j][1] => i = j
        /\ Active(c) =>
             \A st \in Range(StencilsOf(call[c].engine)) :
                ~KwargsClash(StageDicts(st, c, call[c].tmp))
        /\ \A k \in DOMAIN call[c].log :
              \A a \in DOMAIN call[c].log[k].args :
                 call[c].log[k].args[a] \in DOMAIN SchemaNameOf[c] =>
                   a = SchemaNameOf[c][call[c].log[k].args[a]]
        /\ Returned(c) =>
             \A i \in DOMAIN sa :
                \E k \in DOMAIN call[c].log :
                   /\ sa[i][1] \in DOMAIN call[c].log[k].args
                   /\ call[c].log[k].args[sa[i][1]] = sa[i][2]

\* A split call has returned, so both of its stages were given their
\* arguments.
SplitStagesGivenArguments ==
  \E c \in Callers :
     /\ Returned(c)
     /\ call[c].engine = "split"
     /\ Len(call[c].log) = 2
     /\ InVfi \in DOMAIN call[c].log[2].args


StagesReceiveSameDt ==
  LibDone("array_call.dt") =>
     \A st \in DOMAIN lib.out : lib.out[st] = TotalSeconds(lib.args[1])


\* C26: while a call is between its entry and its first stage call,
\* tmp_klevel holds nz + 1 entries with entry k equal to k for k in 0 .. nz,
\* and in the split variant tmp_aph_s holds the value of f_aph at interface nz.
TemporariesPrepared ==
  \A c \in Callers :
     (call[c].pc = "entered" /\ call[c].log = <<>>) =>
        LET klevel == mem[call[c].tmp[<<"klevel">>]]
        IN /\ Len(klevel) = grid.nz + 1
           /\ \A k \in 0..grid.nz : klevel[k + 1] = k
           /\ call[c].engine = "split" =>
                mem[call[c].tmp[<<"aph", "s">>]] = mem[StateBuf(AphIndex)][grid.nz + 1]

\* A split call is about to make its first stage call on a grid of more than
\* one level.
SplitCallPrepared ==
  \E c \in Callers :
     /\ call[c].pc = "entered"
     /\ call[c].engine = "split"
     /\ call[c].log = <<>>
     /\ grid.nz > 1


\* C27: when initialize_field has returned, a storage of rank 2 holds
\* buffer[i mod mi] at [i, 0] for every column i < ni, and a storage of rank 3
\* holds buffer[i mod mi, k] at [i, 0, k] for every k < min(nk, mk) and what
\* it held before at the levels from min(nk, mk) on, whether ni is less than
\* mi, a multiple of mi or neither.
StorageTiledPeriodically ==
  (lib.fn = "initialize_field" /\ lib.pc = "done") =>
     LET a == lib.args
         mi == a.bshape[1]
     IN IF Len(a.shape) = 2
        THEN \A x \in DOMAIN lib.env.storage :
                lib.env.storage[x] = a.buffer[<<x[1] % mi>>]
        ELSE LET nk == a.shape[3]
                 mk == a.bshape[2]
             IN \A x \in DOMAIN lib.env.storage :
                   lib.env.storage[x] =
                     IF x[3] < nk /\ x[3] < mk THEN a.buffer[<<x[1] % mi, x[3]>>]
                     ELSE a.storage[x]

\* initialize_field has returned on a rank-3 storage with more columns than
\* the buffer, not a multiple of the buffer's, and more levels than the
\* buffer.
PartialTileAndSpareLevels ==
  /\ lib.fn = "initialize_field"
  /\ lib.pc = "done"
  /\ Len(lib.args.shape) = 3
  /\ lib.args.shape[1] > lib.args.bshape[1]
  /\ lib.args.shape[1] % lib.args.bshape[1] # 0
  /\ lib.args.shape[3] > lib.args.bshape[2]

====
